---- MODULE Spec2Model ----
(***************************************************************************)
(* Model of the transformation engine of mtg-card-analyser                 *)
(* (src/src/transform/cleaner.py): the type-line parser, the mana-cost     *)
(* parser, the face expander, the orchestrator run_cleaner and the two     *)
(* normalisers.                                                            *)
(*                                                                         *)
(* Text is modelled as a sequence of one-character strings, so that the    *)
(* Python string operations (strip, split, replace, upper, isdigit, int)   *)
(* are computed character by character.  A pandas table is a record        *)
(* [cols |-> sequence of column names, rows |-> sequence of rows], a row   *)
(* being a function from column names to cell values.                      *)
(***************************************************************************)
EXTENDS Integers, Sequences, FiniteSets, TLC

(***************************************************************************)
(* Characters and Python's str operations                                  *)
(***************************************************************************)

\* U+2014 EM DASH, one character of the text (written as a token here).
EmDash == "U+2014"

\* The characters str.strip() and str.split() treat as whitespace.
Whitespace == {" ", "\t", "\n"}

LowerLetters ==
    <<"a", "b", "c", "d", "e", "f", "g", "h", "i", "j", "k", "l", "m",
      "n", "o", "p", "q", "r", "s", "t", "u", "v", "w", "x", "y", "z">>

UpperLetters ==
    <<"A", "B", "C", "D", "E", "F", "G", "H", "I", "J", "K", "L", "M",
      "N", "O", "P", "Q", "R", "S", "T", "U", "V", "W", "X", "Y", "Z">>

Digits == <<"0", "1", "2", "3", "4", "5", "6", "7", "8", "9">>

\* Index of character c in the sequence t, 0 when absent.
IndexOf(c, t) ==
    IF \E i \in 1..Len(t) : t[i] = c
    THEN CHOOSE i \in 1..Len(t) : t[i] = c
    ELSE 0

\* str.upper(), character by character.
UpperChar(c) ==
    IF IndexOf(c, LowerLetters) = 0 THEN c
    ELSE UpperLetters[IndexOf(c, LowerLetters)]

Upper(s) == [i \in 1..Len(s) |-> UpperChar(s[i])]

\* s[from:] in Python terms (1-based here).
DropPrefix(s, n) == SubSeq(s, n + 1, Len(s))

RECURSIVE LStripChars(_, _)
LStripChars(s, chars) ==
    IF s = <<>> \/ Head(s) \notin chars THEN s
    ELSE LStripChars(Tail(s), chars)

RECURSIVE RStripChars(_, _)
RStripChars(s, chars) ==
    IF s = <<>> \/ s[Len(s)] \notin chars THEN s
    ELSE RStripChars(SubSeq(s, 1, Len(s) - 1), chars)

\* str.strip(chars): removes leading and trailing characters of the set.
StripChars(s, chars) == RStripChars(LStripChars(s, chars), chars)

\* str.strip()
Strip(s) == StripChars(s, Whitespace)

\* str.startswith(p)
StartsWith(s, p) == Len(s) >= Len(p) /\ SubSeq(s, 1, Len(p)) = p

\* str.find(sep): the first index at which sep occurs in s, 0 when it does not.
Find(s, sep) ==
    LET hits == {j \in 1..(Len(s) - Len(sep) + 1) :
                    SubSeq(s, j, j + Len(sep) - 1) = sep}
    IN IF hits = {} THEN 0
       ELSE CHOOSE j \in hits : \A k \in hits : j <= k

\* `sep in s`
Contains(s, sep) == Find(s, sep) # 0

\* str.split(sep), sep non-empty: non-overlapping, leftmost first.
RECURSIVE Split(_, _)
Split(s, sep) ==
    LET j == Find(s, sep)
    IN IF j = 0 THEN <<s>>
       ELSE <<SubSeq(s, 1, j - 1)>> \o Split(DropPrefix(s, j + Len(sep) - 1), sep)

\* str.replace(old, new): every non-overlapping occurrence, left to right.
RECURSIVE Replace(_, _, _)
Replace(s, old, new) ==
    LET j == Find(s, old)
    IN IF j = 0 THEN s
       ELSE SubSeq(s, 1, j - 1) \o new
            \o Replace(DropPrefix(s, j + Len(old) - 1), old, new)

\* str.split(): the maximal runs of non-whitespace characters.
RECURSIVE SplitWS(_)
SplitWS(s) ==
    LET t == LStripChars(s, Whitespace)
        ends == {j \in 1..Len(t) : t[j] \in Whitespace}
        e == IF ends = {} THEN Len(t) + 1
             ELSE CHOOSE j \in ends : \A k \in ends : j <= k
    IN IF t = <<>> THEN <<>>
       ELSE <<SubSeq(t, 1, e - 1)>> \o SplitWS(DropPrefix(t, e - 1))

\* sep.join(parts)
RECURSIVE Join(_, _)
Join(parts, sep) ==
    IF parts = <<>> THEN <<>>
    ELSE IF Len(parts) = 1 THEN parts[1]
    ELSE parts[1] \o sep \o Join(Tail(parts), sep)

\* str.isdigit()
IsDigit(s) == s # <<>> /\ \A i \in 1..Len(s) : IndexOf(s[i], Digits) # 0

\* int(s) for a string of decimal digits.
RECURSIVE ParseInt(_)
ParseInt(s) ==
    IF s = <<>> THEN 0
    ELSE 10 * ParseInt(SubSeq(s, 1, Len(s) - 1)) + (IndexOf(s[Len(s)], Digits) - 1)

\* Elements of a sequence, and membership in a Python list.
Range(t) == {t[i] : i \in 1..Len(t)}

(***************************************************************************)
(* Constants of cleaner.py                                                 *)
(***************************************************************************)

COLOURS == << <<"W">>, <<"U">>, <<"B">>, <<"R">>, <<"G">>, <<"C">> >>

\* "Cheapest Recent Printing - "
PREFIX_TO_REMOVE ==
    <<"C", "h", "e", "a", "p", "e", "s", "t", " ", "R", "e", "c", "e", "n",
      "t", " ", "P", "r", "i", "n", "t", "i", "n", "g", " ", "-", " ">>

SUPER_TYPES_MTG ==
    { <<"B", "A", "S", "I", "C">>,
      <<"L", "E", "G", "E", "N", "D", "A", "R", "Y">>,
      <<"O", "N", "G", "O", "I", "N", "G">>,
      <<"S", "N", "O", "W">>,
      <<"W", "O", "R", "L", "D">>,
      <<"T", "R", "I", "B", "A", "L">>,
      <<"P", "L", "A", "N", "E">> }

\* The face separator of multi-faced listings, "//".
FaceSep == <<"/", "/">>

(***************************************************************************)
(* clean_types                                                             *)
(***************************************************************************)

\* DashSplit without the test of line 67: a string with no dash also yields
\* a second part.
DashSplit_AlwaysTwoParts(s) ==
    LET dashes == {j \in 1..Len(s) : s[j] \in {"-", EmDash}}
        d == CHOOSE j \in dashes : \A k \in dashes : j <= k
    IN IF dashes = {} THEN <<s, s>>
       ELSE << RStripChars(SubSeq(s, 1, d - 1), Whitespace),
               LStripChars(DropPrefix(s, d), Whitespace) >>

\* DashSplit that splits at the last hyphen or em-dash.
DashSplit_AtLastDash(s) ==
    LET dashes == {j \in 1..Len(s) : s[j] \in {"-", EmDash}}
        d == CHOOSE j \in dashes : \A k \in dashes : j >= k
    IN IF dashes = {} THEN <<s>>
       ELSE << RStripChars(SubSeq(s, 1, d - 1), Whitespace),
               LStripChars(DropPrefix(s, d), Whitespace) >>

\* re.split(r"\s*[-—]\s*", s, 1): split at the first hyphen or em-dash,
\* the whitespace around it belonging to the separator.
DashSplit(s) ==
    LET dashes == {j \in 1..Len(s) : s[j] \in {"-", EmDash}}
        d == CHOOSE j \in dashes : \A k \in dashes : j <= k
    IN IF dashes = {} THEN <<s>>
       ELSE << RStripChars(SubSeq(s, 1, d - 1), Whitespace),
               LStripChars(DropPrefix(s, d), Whitespace) >>

\* SuperTokens with a test that regards case (part in SUPER_TYPES_MTG).
RECURSIVE SuperTokens_CaseSensitive(_)
SuperTokens_CaseSensitive(parts) ==
    IF parts = <<>> THEN <<>>
    ELSE (IF Head(parts) \in SUPER_TYPES_MTG THEN <<Head(parts)>> ELSE <<>>)
         \o SuperTokens_CaseSensitive(Tail(parts))

\* The tokens of a list that satisfy / do not satisfy the super-type test,
\* in their original order.
RECURSIVE SuperTokens(_)
SuperTokens(parts) ==
    IF parts = <<>> THEN <<>>
    ELSE (IF Upper(Head(parts)) \in SUPER_TYPES_MTG THEN <<Head(parts)>> ELSE <<>>)
         \o SuperTokens(Tail(parts))

RECURSIVE PrimaryTokens(_)
PrimaryTokens(parts) ==
    IF parts = <<>> THEN <<>>
    ELSE (IF Upper(Head(parts)) \in SUPER_TYPES_MTG THEN <<>> ELSE <<Head(parts)>>)
         \o PrimaryTokens(Tail(parts))

clean_types(type_in) ==
    LET type_str == Strip(type_in)
        dash_split == DashSplit(type_str)
        primary_line == Strip(dash_split[1])
        type_parts == SplitWS(primary_line)
        subtypes == IF Len(dash_split) > 1
                    THEN Join(SplitWS(Strip(dash_split[2])), <<",">>)
                    ELSE <<>>
    IN IF type_str = <<>>
       THEN [Super_Type |-> <<>>, Primary_Type |-> <<>>, Subtypes_List |-> <<>>]
       ELSE [Super_Type |-> Join(SuperTokens(type_parts), <<" ">>),
             Primary_Type |-> Join(PrimaryTokens(type_parts), <<" ">>),
             Subtypes_List |-> subtypes]

(***************************************************************************)
(* parse_mana_cost                                                         *)
(***************************************************************************)

\* The column of a colour symbol: f"Is_{colour}".
FlagOf(symbol) == "Is_" \o symbol[1]

ManaInit ==
    [CMC |-> 0, Is_Hybrid |-> FALSE, Generic_Mana |-> 0, Is_X |-> FALSE,
     Is_W |-> FALSE, Is_U |-> FALSE, Is_B |-> FALSE, Is_R |-> FALSE,
     Is_G |-> FALSE, Is_C |-> FALSE]

\* Lines 130-132: every side of a hybrid symbol that names a colour sets its flag.
RECURSIVE SetHybridFlags(_, _)
SetHybridFlags(row_data, hybrid_symbols) ==
    IF hybrid_symbols = <<>> THEN row_data
    ELSE LET symbol == Head(hybrid_symbols)
             next == IF symbol \in Range(COLOURS)
                     THEN [row_data EXCEPT ![FlagOf(symbol)] = TRUE]
                     ELSE row_data
         IN SetHybridFlags(next, Tail(hybrid_symbols))

\* ManaPart whose hybrid branch assigns CMC where lines 123 and 125 add to it.
ManaPart_HybridAssignsCMC(row_data, part) ==
    LET symbol_value_raw == StripChars(part, {"s", "y", "m", "_"})
        symbol_value_normalised == Upper(symbol_value_raw)
    IN IF Contains(symbol_value_normalised, <<"/">>)
       THEN SetHybridFlags([row_data EXCEPT !.Is_Hybrid = TRUE,
                !.CMC = (IF StartsWith(part, <<"s","y","m","_","2","/">>) THEN 2 ELSE 1)],
                Split(symbol_value_normalised, <<"/">>))
       ELSE IF symbol_value_normalised \in Range(COLOURS)
       THEN [row_data EXCEPT !.CMC = @ + 1, ![FlagOf(symbol_value_normalised)] = TRUE]
       ELSE IF IsDigit(symbol_value_raw)
       THEN [row_data EXCEPT !.CMC = @ + ParseInt(symbol_value_raw),
                             !.Generic_Mana = @ + ParseInt(symbol_value_raw)]
       ELSE IF symbol_value_normalised = <<"X">> THEN [row_data EXCEPT !.Is_X = TRUE]
       ELSE row_data

\* The body of the loop over cost_parts (lines 108-153), for one part.
ManaPart(row_data, part) ==
    LET symbol_value_raw == StripChars(part, {"s", "y", "m", "_"})
        symbol_value_normalised == Upper(symbol_value_raw)
    IN IF Contains(symbol_value_normalised, <<"/">>)
       THEN SetHybridFlags(
                [row_data EXCEPT
                    !.Is_Hybrid = TRUE,
                    !.CMC = @ + (IF StartsWith(part, <<"s", "y", "m", "_", "2", "/">>)
                                 THEN 2 ELSE 1)],
                Split(symbol_value_normalised, <<"/">>))
       ELSE IF symbol_value_normalised \in Range(COLOURS)
       THEN [row_data EXCEPT !.CMC = @ + 1,
                             ![FlagOf(symbol_value_normalised)] = TRUE]
       ELSE IF IsDigit(symbol_value_raw)
       THEN [row_data EXCEPT !.CMC = @ + ParseInt(symbol_value_raw),
                             !.Generic_Mana = @ + ParseInt(symbol_value_raw)]
       ELSE IF symbol_value_normalised = <<"X">>
       THEN [row_data EXCEPT !.Is_X = TRUE]
       ELSE row_data

RECURSIVE ManaFold(_, _)
ManaFold(row_data, cost_parts) ==
    IF cost_parts = <<>> THEN row_data
    ELSE ManaFold(ManaPart(row_data, Head(cost_parts)), Tail(cost_parts))

parse_mana_cost(cost_str) == ManaFold(ManaInit, SplitWS(cost_str))

(***************************************************************************)
(* pandas: cells, tables and the operations run_cleaner uses               *)
(***************************************************************************)

\* A missing text cell (NaN), as pd.read_csv gives for an empty field.
NaN == <<"NaN">>

\* A missing number after a left merge that found no match; the keys the
\* program assigns are index + 1, so they are never 0.
NullId == 0

\* Series.fillna("")
FillNa(v) == IF v = NaN THEN <<>> ELSE v

\* Series.astype(str): str(nan) is "nan".
AsStr(v) == IF v = NaN THEN <<"n", "a", "n">> ELSE v

\* The columns of a row, and a row without some of its columns.
WithoutKeys(r, keys) == [k \in (DOMAIN r) \ keys |-> r[k]]

OnlyKeys(r, keys) == [k \in keys |-> r[k]]

\* A sequence of column names without the given ones, order kept.
RECURSIVE ColsWithout(_, _)
ColsWithout(cols, keys) ==
    IF cols = <<>> THEN <<>>
    ELSE (IF Head(cols) \in keys THEN <<>> ELSE <<Head(cols)>>)
         \o ColsWithout(Tail(cols), keys)

\* DataFrame.drop(columns=keys, errors="ignore")
DropColumns(t, keys) ==
    [cols |-> ColsWithout(t.cols, keys),
     rows |-> [i \in 1..Len(t.rows) |-> WithoutKeys(t.rows[i], keys)]]

\* drop_duplicates(keep="last") in place of the default: the last occurrence
\* of every value.
RECURSIVE DropDuplicates_KeepLast(_)
DropDuplicates_KeepLast(s) ==
    IF s = <<>> THEN <<>>
    ELSE LET rest == DropDuplicates_KeepLast(Tail(s))
         IN IF Head(s) \in Range(rest) THEN rest
            ELSE <<Head(s)>> \o rest

\* drop_duplicates(): the first occurrence of every value, in order.
RECURSIVE DropDuplicates(_)
DropDuplicates(s) ==
    IF s = <<>> THEN <<>>
    ELSE LET init == DropDuplicates(SubSeq(s, 1, Len(s) - 1))
         IN IF s[Len(s)] \in Range(init) THEN init
            ELSE Append(init, s[Len(s)])

\* Concatenation of a sequence of sequences (explode, after a per-row map).
RECURSIVE Flatten(_)
Flatten(ss) ==
    IF ss = <<>> THEN <<>> ELSE Head(ss) \o Flatten(Tail(ss))

\* The rows of `right` whose key equals v, in order.
RECURSIVE Matches(_, _, _)
Matches(right, right_on, v) ==
    IF right = <<>> THEN <<>>
    ELSE (IF Head(right)[right_on] = v THEN <<Head(right)>> ELSE <<>>)
         \o Matches(Tail(right), right_on, v)

\* left.merge(right, left_on=..., right_on=..., how="left"): every left row
\* in order, once per matching right row; a left row without a match is
\* kept, its right-hand columns missing.
MergeLeft(left, right, left_on, right_on, missing) ==
    Flatten([i \in 1..Len(left) |->
        LET m == Matches(right, right_on, left[i][left_on])
        IN IF m = <<>> THEN << missing @@ left[i] >>
           ELSE [j \in 1..Len(m) |-> m[j] @@ left[i]]])

(***************************************************************************)
(* process_card_face                                                       *)
(***************************************************************************)

\* The keys of the dictionary process_card_face returns, in insertion order
\* (lines 164, 56 and 102-104): the columns of pd.DataFrame(final_rows).
FaceColumns ==
    <<"Name", "Edition", "Super_Type", "Primary_Type", "Subtypes_List",
      "CMC", "Is_Hybrid", "Generic_Mana", "Is_X",
      "Is_W", "Is_U", "Is_B", "Is_R", "Is_G", "Is_C">>

process_card_face(original_row, type_str, mana_str, face_name) ==
    parse_mana_cost(mana_str) @@ clean_types(type_str)
        @@ [Name |-> face_name, Edition |-> original_row["Edition"]]

(***************************************************************************)
(* normalise_subtypes                                                      *)
(***************************************************************************)

\* df[["Card_ID", "Subtypes_List"]] with Subtype_Name = the list split on
\* ",", exploded and stripped (lines 198-213).
ExplodeSubtypes(rows) ==
    Flatten([i \in 1..Len(rows) |->
        LET names == Split(rows[i]["Subtypes_List"], <<",">>)
        IN [j \in 1..Len(names) |->
               [Card_ID |-> rows[i]["Card_ID"],
                Subtypes_List |-> rows[i]["Subtypes_List"],
                Subtype_Name |-> Strip(names[j])]]])

NonEmptyName(r) == r["Subtype_Name"] # <<>>

\* The lookup built from the unsplit lists (the split and explode of line
\* 183 left out).
SubtypeLookup_NoExplode(rows) ==
    LET lists == [i \in 1..Len(rows) |-> Strip(rows[i]["Subtypes_List"])]
        kept == SelectSeq(lists, LAMBDA x : x # <<>>)
        unique == DropDuplicates(kept)
    IN [cols |-> <<"Subtype_Name", "Subtype_ID">>,
        rows |-> [i \in 1..Len(unique) |->
                     [Subtype_Name |-> unique[i], Subtype_ID |-> (i - 1) + 1]]]

\* Lines 182-195.
SubtypeLookup(rows) ==
    LET exploded == SelectSeq(ExplodeSubtypes(rows), NonEmptyName)
        subtypes_series == [i \in 1..Len(exploded) |-> exploded[i]["Subtype_Name"]]
        unique == DropDuplicates(subtypes_series)
    IN [cols |-> <<"Subtype_Name", "Subtype_ID">>,
        rows |-> [i \in 1..Len(unique) |->
                     [Subtype_Name |-> unique[i], Subtype_ID |-> (i - 1) + 1]]]

\* The link table without the drop_duplicates of line 224.
CardSubtypeLink_KeepDuplicates(rows, subtype_lookup) ==
    LET exploded == SelectSeq(ExplodeSubtypes(rows), NonEmptyName)
        merged == MergeLeft(exploded, subtype_lookup.rows,
                            "Subtype_Name", "Subtype_Name",
                            [Subtype_ID |-> NullId])
    IN [cols |-> <<"Card_ID", "Subtype_ID">>,
        rows |-> [i \in 1..Len(merged) |->
                     OnlyKeys(merged[i], {"Card_ID", "Subtype_ID"})]]

\* Lines 197-224.
CardSubtypeLink(rows, subtype_lookup) ==
    LET exploded == SelectSeq(ExplodeSubtypes(rows), NonEmptyName)
        merged == MergeLeft(exploded, subtype_lookup.rows,
                            "Subtype_Name", "Subtype_Name",
                            [Subtype_ID |-> NullId])
        pairs == [i \in 1..Len(merged) |->
                     OnlyKeys(merged[i], {"Card_ID", "Subtype_ID"})]
    IN [cols |-> <<"Card_ID", "Subtype_ID">>,
        rows |-> DropDuplicates(pairs)]

(***************************************************************************)
(* normalise_edition                                                       *)
(***************************************************************************)

\* The lookup without the drop_duplicates of line 241: a row per card.
EditionLookup_NoDedup(card_df) ==
    [cols |-> <<"Edition_Name", "Edition_ID">>,
     rows |-> [i \in 1..Len(card_df.rows) |->
                  [Edition_Name |-> card_df.rows[i]["Edition"],
                   Edition_ID |-> (i - 1) + 1]]]

\* Lines 240-245.
EditionLookup(card_df) ==
    LET editions == [i \in 1..Len(card_df.rows) |-> card_df.rows[i]["Edition"]]
        unique == DropDuplicates(editions)
    IN [cols |-> <<"Edition_Name", "Edition_ID">>,
        rows |-> [i \in 1..Len(unique) |->
                     [Edition_Name |-> unique[i], Edition_ID |-> (i - 1) + 1]]]

\* The merge of line 248 with left_on="Name" in place of "Edition".
CardsWithEditionKey_WrongKey(card_df, edition_lookup) ==
    LET merged == [cols |-> card_df.cols \o <<"Edition_Name", "Edition_ID">>,
                   rows |-> MergeLeft(card_df.rows, edition_lookup.rows,
                                      "Name", "Edition_Name",
                                      [Edition_Name |-> NaN, Edition_ID |-> NullId])]
        dropped == DropColumns(merged, {"Edition", "Edition_Name"})
    IN [cols |-> <<"Card_ID", "Edition_ID">>
                 \o ColsWithout(dropped.cols, {"Card_ID", "Edition_ID"}),
        rows |-> dropped.rows]

\* normalise_edition without the reordering of lines 261-264: Edition_ID
\* stays where the merge put it, after the other columns.
CardsWithEditionKey_NoReorder(card_df, edition_lookup) ==
    LET merged == [cols |-> card_df.cols \o <<"Edition_Name", "Edition_ID">>,
                   rows |-> MergeLeft(card_df.rows, edition_lookup.rows,
                                      "Edition", "Edition_Name",
                                      [Edition_Name |-> NaN, Edition_ID |-> NullId])]
    IN DropColumns(merged, {"Edition", "Edition_Name"})

\* Lines 247-264.
CardsWithEditionKey(card_df, edition_lookup) ==
    LET merged == [cols |-> card_df.cols \o <<"Edition_Name", "Edition_ID">>,
                   rows |-> MergeLeft(card_df.rows, edition_lookup.rows,
                                      "Edition", "Edition_Name",
                                      [Edition_Name |-> NaN, Edition_ID |-> NullId])]
        dropped == DropColumns(merged, {"Edition", "Edition_Name"})
    IN [cols |-> <<"Card_ID", "Edition_ID">>
                 \o ColsWithout(dropped.cols, {"Card_ID", "Edition_ID"}),
        rows |-> dropped.rows]

(***************************************************************************)
(* The raw listings the runs are checked on                                *)
(***************************************************************************)

\* "Mace"
Name_Mace ==
    <<"M", "a", "c", "e">>

\* "A // B"
Name_AB ==
    <<"A", " ", "/", "/", " ", "B">>

\* "C//D"
Name_CD ==
    <<"C", "/", "/", "D">>

\* "A // B // C"
Name_ABC ==
    <<"A", " ", "/", "/", " ", "B", " ", "/", "/", " ", "C">>

\* "G"
Name_G ==
    <<"G">>

\* "Unf"
Ed_Unf ==
    <<"U", "n", "f">>

\* " Zen "
Ed_ZenPadded ==
    <<" ", "Z", "e", "n", " ">>

\* "Zen"
Ed_Zen ==
    <<"Z", "e", "n">>

\* "Bad"
Ed_Bad ==
    <<"B", "a", "d">>

\* "0.07"
Price_007 ==
    <<"0", ".", "0", "7">>

\* "Artifact - Equipment"
Type_Equipment ==
    <<"A", "r", "t", "i", "f", "a", "c", "t", " ", "-", " ", "E", "q", "u",
      "i", "p", "m", "e", "n", "t">>

\* "Instant // Sorcery"
Type_Split ==
    <<"I", "n", "s", "t", "a", "n", "t", " ", "/", "/", " ", "S", "o", "r",
      "c", "e", "r", "y">>

\* "Legendary Creature - Elf Orc Elf//Land — Orc"
Type_SplitSubtypes ==
    <<"L", "e", "g", "e", "n", "d", "a", "r", "y", " ", "C", "r", "e", "a",
      "t", "u", "r", "e", " ", "-", " ", "E", "l", "f", " ", "O", "r", "c",
      " ", "E", "l", "f", "/", "/", "L", "a", "n", "d", " ", EmDash, " ",
      "O", "r", "c">>

\* "Land - Imp // X // Y"
Type_ThreeParts ==
    <<"L", "a", "n", "d", " ", "-", " ", "I", "m", "p", " ", "/", "/", " ",
      "X", " ", "/", "/", " ", "Y">>

\* "Snow Creature - Elf"
Type_SnowElf ==
    <<"S", "n", "o", "w", " ", "C", "r", "e", "a", "t", "u", "r", "e", " ",
      "-", " ", "E", "l", "f">>

\* "Land // Land"
Type_Lands ==
    <<"L", "a", "n", "d", " ", "/", "/", " ", "L", "a", "n", "d">>

\* "sym_1 sym_W"
Mana_1W ==
    <<"s", "y", "m", "_", "1", " ", "s", "y", "m", "_", "W">>

\* "sym_u // sym_2 sym_g"
Mana_Split ==
    <<"s", "y", "m", "_", "u", " ", "/", "/", " ", "s", "y", "m", "_", "2",
      " ", "s", "y", "m", "_", "g">>

\* "sym_2/u sym_x"
Mana_HybridX ==
    <<"s", "y", "m", "_", "2", "/", "u", " ", "s", "y", "m", "_", "x">>

\* "sym_r"
Mana_R ==
    <<"s", "y", "m", "_", "r">>

\* "sym_b // sym_3"
Mana_B3 ==
    <<"s", "y", "m", "_", "b", " ", "/", "/", " ", "s", "y", "m", "_",
      "3">>

\* "sym_w // sym_u // sym_b"
Mana_ThreeParts ==
    <<"s", "y", "m", "_", "w", " ", "/", "/", " ", "s", "y", "m", "_", "u",
      " ", "/", "/", " ", "s", "y", "m", "_", "b">>

\* One scraped listing: the columns Name, Edition, Price, Type, Mana Cost.
RawRow(name, edition, price, type, mana) ==
    [Name |-> name, Edition |-> edition, Price |-> price, Type |-> type]
        @@ ("Mana Cost" :> mana)

RawColumns == <<"Name", "Edition", "Price", "Type", "Mana Cost">>

\* Listings of every shape the face expander distinguishes.  Name is always
\* text (the scraper skips a listing without a name); Edition, Type and
\* Mana Cost may be missing.
RawRows ==
    { \* a single-faced card with a subtype (the +2 Mace of the tests)
      RawRow(Name_Mace, PREFIX_TO_REMOVE \o Ed_Unf, Price_007,
             Type_Equipment, Mana_1W),
      \* a well-formed multi-faced card, every field "a // b"
      RawRow(Name_AB, PREFIX_TO_REMOVE \o Ed_Unf, Price_007,
             Type_Split, Mana_Split),
      \* a well-formed multi-faced card with subtypes, one cost for both faces
      RawRow(Name_CD, Ed_ZenPadded, Price_007,
             Type_SplitSubtypes, Mana_HybridX),
      \* malformed: three type parts; its edition and subtype are its own
      RawRow(Name_AB, Ed_Bad, Price_007, Type_ThreeParts, Mana_R),
      \* malformed: one name part
      RawRow(Name_G, PREFIX_TO_REMOVE \o Ed_Unf, Price_007, Type_Split, NaN),
      \* malformed: three name parts
      RawRow(Name_ABC, Ed_Zen, Price_007, Type_Split, Mana_Split),
      \* single-faced although Name and Mana Cost hold the separator
      RawRow(Name_AB, NaN, Price_007, Type_SnowElf, Mana_B3),
      \* multi-faced with three cost parts
      RawRow(Name_AB, Ed_Zen, Price_007, Type_Lands, Mana_ThreeParts),
      \* no type and no cost
      RawRow(Name_G, Ed_Zen \o <<" ">> \o PREFIX_TO_REMOVE \o Ed_Unf, Price_007,
             NaN, NaN) }

\* The most rows of a raw table.
MaxRows == 3

RECURSIVE SeqsUpTo(_, _)
SeqsUpTo(S, n) ==
    IF n = 0 THEN {<<>>}
    ELSE LET shorter == SeqsUpTo(S, n - 1)
         IN shorter \cup {Append(q, x) : q \in {r \in shorter : Len(r) = n - 1}, x \in S}

RawTables == {[cols |-> RawColumns, rows |-> rows] : rows \in SeqsUpTo(RawRows, MaxRows)}

EmptyTable == [cols |-> <<>>, rows |-> <<>>]

(***************************************************************************)
(* run_cleaner                                                             *)
(***************************************************************************)

VARIABLES
    raw,                  \* the table the caller passes to run_cleaner
    pc,                   \* the position of run_cleaner
    df,                   \* run_cleaner's working copy
    idx,                  \* the row the loop of line 308 is at (1-based)
    final_rows,           \* the accumulated faces
    skipped,              \* the rows (by position) the warning of line 327 named
    clean_df,             \* line 352-360
    card_df_temp,         \* line 363
    subtype_lookup_df,
    card_subtype_link_df,
    final_card_df,        \* line 366
    edition_lookup_df,
    returned,             \* the tuple run_cleaner returned, <<>> before
    fn_arg,               \* the string a parser is called with on its own
    fn_result,            \* what that call returned, <<>> before
    aliased,              \* df still names the caller's table (before line 285)
    main_pc,              \* the position of main
    source_file,          \* data/raw/mtg_complete_data.csv as read_csv finds it
    writable,             \* how many files data/clean accepts before a write fails
    reads,                \* the calls of pd.read_csv made
    extract_raised,       \* what extract_mtg raised, "none" if it returned
    raw_df,               \* main's local raw_df: <<>> unbound, <<table>> bound
    unpacked,             \* main's four locals of line 39: <<>> unbound
    files,                \* what this run wrote to each file of data/clean
    log                   \* the messages main logged

vars == <<raw, pc, df, idx, final_rows, skipped, clean_df, card_df_temp,
          subtype_lookup_df, card_subtype_link_df, final_card_df,
          edition_lookup_df, returned, fn_arg, fn_result, aliased,
          main_pc, source_file, writable, reads, extract_raised, raw_df,
          unpacked, files, log>>

\* The variables of a direct call of clean_types or parse_mana_cost.
fn_vars == <<fn_arg, fn_result>>

\* The variables of main and of the files it reads and writes.
main_vars == <<main_pc, source_file, writable, reads, extract_raised, raw_df,
               unpacked, files, log>>

\* The four files of data/clean, in the order load_normalized_data writes.
OutputFiles ==
    <<"edition_lookup.csv", "subtype_lookup.csv", "card_subtype_link.csv",
      "card_details.csv">>

\* main is not running: run_cleaner or a parser is called by itself.
MainIdle ==
    /\ main_pc = "NotRunning"
    /\ source_file = [state |-> "absent"]
    /\ writable = 0
    /\ reads = 0
    /\ extract_raised = "none"
    /\ raw_df = <<>>
    /\ unpacked = <<>>
    /\ files = [f \in {OutputFiles[i] : i \in 1..Len(OutputFiles)} |-> <<>>]
    /\ log = <<>>

Init ==
    /\ raw \in RawTables
    /\ pc = "Called"
    /\ df = EmptyTable
    /\ idx = 0
    /\ final_rows = <<>>
    /\ skipped = <<>>
    /\ clean_df = EmptyTable
    /\ card_df_temp = EmptyTable
    /\ subtype_lookup_df = EmptyTable
    /\ card_subtype_link_df = EmptyTable
    /\ final_card_df = EmptyTable
    /\ edition_lookup_df = EmptyTable
    /\ returned = <<>>
    /\ fn_arg = <<>>
    /\ fn_result = <<>>
    /\ aliased = TRUE
    /\ MainIdle

\* run_cleaner without the copy of line 285: df stays the caller's table.
CopyInput_NoCopy ==
    /\ pc = "Called"
    /\ df' = raw
    /\ aliased' = TRUE
    /\ pc' = "RawInput"
    /\ UNCHANGED fn_vars
    /\ UNCHANGED main_vars
    /\ UNCHANGED <<raw, idx, final_rows, skipped, clean_df, card_df_temp,
                   subtype_lookup_df, card_subtype_link_df, final_card_df,
                   edition_lookup_df, returned>>

\* Line 285: df = df.copy()
CopyInput ==
    /\ pc = "Called"
    /\ df' = raw
    /\ aliased' = FALSE
    /\ pc' = "RawInput"
    /\ UNCHANGED fn_vars
    /\ UNCHANGED main_vars
    /\ UNCHANGED <<raw, idx, final_rows, skipped, clean_df, card_df_temp,
                   subtype_lookup_df, card_subtype_link_df, final_card_df,
                   edition_lookup_df, returned>>

\* Lines 289-294: the cleaned text of one Edition cell.
CleanEditionText(v) == Strip(Replace(AsStr(v), PREFIX_TO_REMOVE, <<>>))

CleanEdition ==
    /\ pc = "RawInput"
    /\ df' = [df EXCEPT !.rows =
                 [i \in 1..Len(df.rows) |->
                     [df.rows[i] EXCEPT !["Edition"] = CleanEditionText(@)]]]
    /\ pc' = "EditionTextCleaned"
    /\ UNCHANGED fn_vars
    /\ UNCHANGED main_vars
    /\ raw' = IF aliased THEN df' ELSE raw
    /\ UNCHANGED aliased
    /\ UNCHANGED <<idx, final_rows, skipped, clean_df, card_df_temp,
                   subtype_lookup_df, card_subtype_link_df, final_card_df,
                   edition_lookup_df, returned>>

\* Line 297
DropPrice ==
    /\ pc = "EditionTextCleaned"
    /\ df' = DropColumns(df, {"Price"})
    /\ pc' = "PriceDropped"
    /\ UNCHANGED fn_vars
    /\ UNCHANGED main_vars
    /\ raw' = IF aliased THEN df' ELSE raw
    /\ UNCHANGED aliased
    /\ UNCHANGED <<idx, final_rows, skipped, clean_df, card_df_temp,
                   subtype_lookup_df, card_subtype_link_df, final_card_df,
                   edition_lookup_df, returned>>

\* Lines 300-301: .fillna("").astype(str).str.strip()
PrepText(v) == Strip(AsStr(FillNa(v)))

PrepColumns ==
    /\ pc = "PriceDropped"
    /\ df' = [df EXCEPT !.rows =
                 [i \in 1..Len(df.rows) |->
                     [df.rows[i] EXCEPT !["Mana Cost"] = PrepText(@),
                                        !["Type"] = PrepText(@)]]]
    /\ idx' = 1
    /\ pc' = "Expanding"
    /\ UNCHANGED fn_vars
    /\ UNCHANGED main_vars
    /\ raw' = IF aliased THEN df' ELSE raw
    /\ UNCHANGED aliased
    /\ UNCHANGED <<final_rows, skipped, clean_df, card_df_temp,
                   subtype_lookup_df, card_subtype_link_df, final_card_df,
                   edition_lookup_df, returned>>

\* ManaParts that splits at the first separator only (split("//", 1)): the
\* second part keeps the later parts.
ManaParts_SplitOnce(mana_str) ==
    IF Contains(mana_str, FaceSep)
    THEN << SubSeq(mana_str, 1, Find(mana_str, FaceSep) - 1),
            DropPrefix(mana_str, Find(mana_str, FaceSep) + Len(FaceSep) - 1) >>
    ELSE <<Strip(mana_str), <<>> >>

\* ManaParts that gives both faces the whole cost when there is no separator.
ManaParts_WholeCostTwice(mana_str) ==
    IF Contains(mana_str, FaceSep) THEN Split(mana_str, FaceSep)
    ELSE <<Strip(mana_str), Strip(mana_str)>>

\* Lines 317-322
ManaParts(mana_str) ==
    IF Contains(mana_str, FaceSep) THEN Split(mana_str, FaceSep)
    ELSE <<Strip(mana_str), <<>> >>

\* The test of line 325 on the name parts alone.
BadlyFormatted_NameOnly(name_parts, type_parts) == ~(Len(name_parts) = 2)

\* Lines 324-326: the row is skipped
BadlyFormatted(name_parts, type_parts) ==
    ~(Len(name_parts) = Len(type_parts) /\ Len(type_parts) = 2)

\* The test of line 313 made on Name in place of Type.
FacesOfRow_DetectByName(row) ==
    LET original_name == row["Name"]
        type_str == row["Type"]
        mana_str == row["Mana Cost"]
        name_parts == Split(original_name, FaceSep)
        type_parts == Split(type_str, FaceSep)
        mana_parts == ManaParts(mana_str)
    IN IF Contains(original_name, FaceSep)
       THEN IF BadlyFormatted(name_parts, type_parts) THEN <<>>
            ELSE << process_card_face(row, Strip(type_parts[1]),
                                      Strip(mana_parts[1]), Strip(name_parts[1])),
                    process_card_face(row, Strip(type_parts[2]),
                                      Strip(mana_parts[2]), Strip(name_parts[2])) >>
       ELSE << process_card_face(row, type_str, mana_str, original_name) >>

\* The second face given mana_parts[0] as the first (line 344).
FacesOfRow_SameCost(row) ==
    LET original_name == row["Name"]
        type_str == row["Type"]
        mana_str == row["Mana Cost"]
        name_parts == Split(original_name, FaceSep)
        type_parts == Split(type_str, FaceSep)
        mana_parts == ManaParts(mana_str)
    IN IF Contains(type_str, FaceSep)
       THEN IF BadlyFormatted(name_parts, type_parts) THEN <<>>
            ELSE << process_card_face(row, Strip(type_parts[1]),
                                      Strip(mana_parts[1]), Strip(name_parts[1])),
                    process_card_face(row, Strip(type_parts[2]),
                                      Strip(mana_parts[1]), Strip(name_parts[2])) >>
       ELSE << process_card_face(row, type_str, mana_str, original_name) >>

\* Lines 309-349: the faces one row of df adds to final_rows.
FacesOfRow(row) ==
    LET original_name == row["Name"]
        type_str == row["Type"]
        mana_str == row["Mana Cost"]
        name_parts == Split(original_name, FaceSep)
        type_parts == Split(type_str, FaceSep)
        mana_parts == ManaParts(mana_str)
    IN IF Contains(type_str, FaceSep)
       THEN IF BadlyFormatted(name_parts, type_parts) THEN <<>>
            ELSE << process_card_face(row, Strip(type_parts[1]),
                                      Strip(mana_parts[1]), Strip(name_parts[1])),
                    process_card_face(row, Strip(type_parts[2]),
                                      Strip(mana_parts[2]), Strip(name_parts[2])) >>
       ELSE << process_card_face(row, type_str, mana_str, original_name) >>

\* Lines 313-330: the row reaches the `continue` of line 330.
SkipsRow(row) ==
    /\ Contains(row["Type"], FaceSep)
    /\ BadlyFormatted(Split(row["Name"], FaceSep), Split(row["Type"], FaceSep))

\* One iteration of the loop of line 308.
ExpandRow ==
    /\ pc = "Expanding"
    /\ idx <= Len(df.rows)
    /\ final_rows' = final_rows \o FacesOfRow(df.rows[idx])
    /\ skipped' = IF SkipsRow(df.rows[idx]) THEN Append(skipped, idx) ELSE skipped
    /\ idx' = idx + 1
    /\ UNCHANGED fn_vars
    /\ UNCHANGED aliased
    /\ UNCHANGED main_vars
    /\ UNCHANGED <<raw, pc, df, clean_df, card_df_temp,
                   subtype_lookup_df, card_subtype_link_df, final_card_df,
                   edition_lookup_df, returned>>

\* Card_ID left as the 0-based position (line 357 left out).
WithCardID_ZeroBased(rows) ==
    [cols |-> <<"Card_ID">> \o (IF rows = <<>> THEN <<>> ELSE FaceColumns),
     rows |-> [i \in 1..Len(rows) |-> [Card_ID |-> i - 1] @@ rows[i]]]

\* Lines 352-357: pd.DataFrame(final_rows) has the columns of the faces, and
\* none when there is no face; reset_index adds the 0-based position as the
\* first column, which is renamed Card_ID and raised by one.
WithCardID(rows) ==
    [cols |-> <<"Card_ID">> \o (IF rows = <<>> THEN <<>> ELSE FaceColumns),
     rows |-> [i \in 1..Len(rows) |-> [Card_ID |-> (i - 1) + 1] @@ rows[i]]]

\* Card_ID assigned without waiting for the end of the loop of line 308.
AssignCardID_BeforeLoopEnds ==
    /\ pc = "Expanding"
    /\ clean_df' = DropColumns(WithCardID(final_rows), {"Mana Cost"})
    /\ pc' = "CardIDAssigned"
    /\ UNCHANGED fn_vars
    /\ UNCHANGED aliased
    /\ UNCHANGED main_vars
    /\ UNCHANGED <<raw, df, idx, final_rows, skipped, card_df_temp,
                   subtype_lookup_df, card_subtype_link_df, final_card_df,
                   edition_lookup_df, returned>>

\* Lines 351-360, after the loop has ended.
AssignCardID ==
    /\ pc = "Expanding"
    /\ idx > Len(df.rows)
    /\ clean_df' = DropColumns(WithCardID(final_rows), {"Mana Cost"})
    /\ pc' = "CardIDAssigned"
    /\ UNCHANGED fn_vars
    /\ UNCHANGED aliased
    /\ UNCHANGED main_vars
    /\ UNCHANGED <<raw, df, idx, final_rows, skipped, card_df_temp,
                   subtype_lookup_df, card_subtype_link_df, final_card_df,
                   edition_lookup_df, returned>>

\* Line 363, normalise_subtypes (lines 173-230).
NormaliseSubtypes ==
    /\ pc = "CardIDAssigned"
    /\ "Subtypes_List" \in Range(clean_df.cols)
    /\ subtype_lookup_df' = SubtypeLookup(clean_df.rows)
    /\ card_subtype_link_df' = CardSubtypeLink(clean_df.rows, subtype_lookup_df')
    /\ card_df_temp' = DropColumns(clean_df, {"Subtypes_List"})
    /\ pc' = "SubtypesNormalized"
    /\ UNCHANGED fn_vars
    /\ UNCHANGED aliased
    /\ UNCHANGED main_vars
    /\ UNCHANGED <<raw, df, idx, final_rows, skipped, clean_df, final_card_df,
                   edition_lookup_df, returned>>

\* Line 183: df["Subtypes_List"] on a table without that column raises
\* KeyError, which run_cleaner does not catch.
NormaliseSubtypesRaises ==
    /\ pc = "CardIDAssigned"
    /\ "Subtypes_List" \notin Range(clean_df.cols)
    /\ pc' = "KeyError"
    /\ UNCHANGED fn_vars
    /\ UNCHANGED aliased
    /\ UNCHANGED main_vars
    /\ UNCHANGED <<raw, df, idx, final_rows, skipped, clean_df, card_df_temp,
                   subtype_lookup_df, card_subtype_link_df, final_card_df,
                   edition_lookup_df, returned>>

\* Line 366, normalise_edition (lines 233-267).
NormaliseEdition ==
    /\ pc = "SubtypesNormalized"
    /\ edition_lookup_df' = EditionLookup(card_df_temp)
    /\ final_card_df' = CardsWithEditionKey(card_df_temp, edition_lookup_df')
    /\ pc' = "EditionNormalized"
    /\ UNCHANGED fn_vars
    /\ UNCHANGED aliased
    /\ UNCHANGED main_vars
    /\ UNCHANGED <<raw, df, idx, final_rows, skipped, clean_df, card_df_temp,
                   subtype_lookup_df, card_subtype_link_df, returned>>

\* Line 371
Return ==
    /\ pc = "EditionNormalized"
    /\ returned' = <<final_card_df, edition_lookup_df, subtype_lookup_df,
                     card_subtype_link_df>>
    /\ pc' = "Done"
    /\ UNCHANGED fn_vars
    /\ UNCHANGED aliased
    /\ UNCHANGED main_vars
    /\ UNCHANGED <<raw, df, idx, final_rows, skipped, clean_df, card_df_temp,
                   subtype_lookup_df, card_subtype_link_df, final_card_df,
                   edition_lookup_df>>

Next ==
    \/ CopyInput
    \/ CleanEdition
    \/ DropPrice
    \/ PrepColumns
    \/ ExpandRow
    \/ AssignCardID
    \/ NormaliseSubtypes
    \/ NormaliseSubtypesRaises
    \/ NormaliseEdition
    \/ Return

Spec == Init /\ [][Next]_vars

(***************************************************************************)
(* parse_mana_cost called on its own                                       *)
(***************************************************************************)

\* The tokens the cost strings below are built from: the symbols of the
\* upstream grammar with and without the marker, and noise.
\* "sym_W": a colour symbol
Tok_W == <<"s", "y", "m", "_", "W">>

\* "sym_u": a colour symbol in lower case
Tok_u == <<"s", "y", "m", "_", "u">>

\* "B": a colour symbol without the marker
Tok_B == <<"B">>

\* "sym_3": generic mana
Tok_3 == <<"s", "y", "m", "_", "3">>

\* "sym_12": generic mana of two digits
Tok_12 == <<"s", "y", "m", "_", "1", "2">>

\* "sym_x": the variable cost
Tok_x == <<"s", "y", "m", "_", "x">>

\* "X": the variable cost without the marker
Tok_X == <<"X">>

\* "sym_2/u": the two-generic hybrid
Tok_2u == <<"s", "y", "m", "_", "2", "/", "u">>

\* "2/u": the two-generic hybrid without the marker
Tok_2u_bare == <<"2", "/", "u">>

\* "sym_w/u": a two-colour hybrid
Tok_wu == <<"s", "y", "m", "_", "w", "/", "u">>

\* "sym_s": a symbol the parser does not know (snow)
Tok_snow == <<"s", "y", "m", "_", "s">>

\* "foo": an unknown word
Tok_foo == <<"f", "o", "o">>

\* "sum": an unknown word that begins and ends with letters of the marker
Tok_sum == <<"s", "u", "m">>

\* "sym_2s": an unknown symbol that ends with a letter of the marker
Tok_2s == <<"s", "y", "m", "_", "2", "s">>

\* "/": a token made of one slash
Tok_slash == <<"/">>

\* "//": a token made of slashes only (a face separator in a one-faced row)
Tok_slashes == <<"/", "/">>

ManaTokens ==
    {Tok_W, Tok_u, Tok_B, Tok_3,
     Tok_12, Tok_x, Tok_X, Tok_2u,
     Tok_2u_bare, Tok_wu, Tok_snow, Tok_foo,
     Tok_sum, Tok_2s, Tok_slash, Tok_slashes}

\* The most tokens of a cost string.
MaxManaTokens == 2

\* cost_str: up to MaxManaTokens tokens separated by one space.
ManaCostStrings ==
    {Join(ts, <<" ">>) : ts \in SeqsUpTo(ManaTokens, MaxManaTokens)}

\* run_cleaner is not running.
CleanerIdle ==
    /\ raw = EmptyTable
    /\ df = EmptyTable
    /\ idx = 0
    /\ final_rows = <<>>
    /\ skipped = <<>>
    /\ clean_df = EmptyTable
    /\ card_df_temp = EmptyTable
    /\ subtype_lookup_df = EmptyTable
    /\ card_subtype_link_df = EmptyTable
    /\ final_card_df = EmptyTable
    /\ edition_lookup_df = EmptyTable
    /\ returned = <<>>
    /\ aliased = TRUE

cleaner_vars == <<raw, df, idx, final_rows, skipped, clean_df, card_df_temp,
                  subtype_lookup_df, card_subtype_link_df, final_card_df,
                  edition_lookup_df, returned, aliased>>

InitMana ==
    /\ CleanerIdle
    /\ MainIdle
    /\ pc = "ManaCostGiven"
    /\ fn_arg \in ManaCostStrings
    /\ fn_result = <<>>

\* Lines 96-155: the call parse_mana_cost(cost_str).
CallParseManaCost ==
    /\ pc = "ManaCostGiven"
    /\ fn_result' = parse_mana_cost(fn_arg)
    /\ pc' = "ManaCostParsed"
    /\ UNCHANGED fn_arg
    /\ UNCHANGED cleaner_vars
    /\ UNCHANGED main_vars

NextMana == CallParseManaCost

SpecMana == InitMana /\ [][NextMana]_vars

(***************************************************************************)
(* clean_types called on its own                                           *)
(***************************************************************************)

\* The words the type strings below are built from.
\* "Legendary": a super type
Ty_Legendary == <<"L", "e", "g", "e", "n", "d", "a", "r", "y">>

\* "basic": a super type in lower case
Ty_basic == <<"b", "a", "s", "i", "c">>

\* "Snowy": a word that only begins with a super type
Ty_Snowy == <<"S", "n", "o", "w", "y">>

\* "Creature": a primary type
Ty_Creature == <<"C", "r", "e", "a", "t", "u", "r", "e">>

\* "Elf": a subtype
Ty_Elf == <<"E", "l", "f">>

\* "Orc": a subtype
Ty_Orc == <<"O", "r", "c">>

\* "Half-Elf": a word with a hyphen inside
Ty_HalfElf == <<"H", "a", "l", "f", "-", "E", "l", "f">>

\* "-": the hyphen
Ty_Hyphen == <<"-">>

\* The em-dash.
Ty_EmDash == <<EmDash>>

\* A tab: with the joining spaces, a run of whitespace.
Ty_Tab == <<"\t">>

TypeTokens ==
    {Ty_Legendary, Ty_basic, Ty_Snowy, Ty_Creature, Ty_Elf, Ty_Orc,
     Ty_HalfElf, Ty_Hyphen, Ty_EmDash, Ty_Tab}

\* The most words of a type string.
MaxTypeTokens == 3

\* type_str: up to MaxTypeTokens words separated by one space.
TypeStrings ==
    {Join(ts, <<" ">>) : ts \in SeqsUpTo(TypeTokens, MaxTypeTokens)}

InitTypes ==
    /\ CleanerIdle
    /\ MainIdle
    /\ pc = "TypeGiven"
    /\ fn_arg \in TypeStrings
    /\ fn_result = <<>>

\* Lines 42-93: the call clean_types(type_str).
CallCleanTypes ==
    /\ pc = "TypeGiven"
    /\ fn_result' = clean_types(fn_arg)
    /\ pc' = "TypeParsed"
    /\ UNCHANGED fn_arg
    /\ UNCHANGED cleaner_vars
    /\ UNCHANGED main_vars

NextTypes == CallCleanTypes

SpecTypes == InitTypes /\ [][NextTypes]_vars

(***************************************************************************)
(* main: extract_mtg, run_cleaner, load_normalized_data                    *)
(***************************************************************************)

\* extract_mtg wrapping the missing file too in the plain Exception of
\* line 57.
extract_mtg_WrapsEveryFailure(file) ==
    IF file.state = "present"
    THEN [raised |-> "none", value |-> <<file.table>>, reads |-> 1]
    ELSE [raised |-> "Exception", value |-> <<>>, reads |-> 1]

\* extract_mtg.py lines 24-57: one call of pd.read_csv; its table is
\* returned, FileNotFoundError is raised again as FileNotFoundError, any
\* other exception as a plain Exception.
extract_mtg(file) ==
    IF file.state = "present"
    THEN [raised |-> "none", value |-> <<file.table>>, reads |-> 1]
    ELSE IF file.state = "absent"
    THEN [raised |-> "FileNotFoundError", value |-> <<>>, reads |-> 1]
    ELSE [raised |-> "Exception", value |-> <<>>, reads |-> 1]

\* DataFrame.to_csv(path, index=False): the header line and one line per
\* row, the cells in column order.
to_csv(t) ==
    [header |-> t.cols,
     lines |-> [i \in 1..Len(t.rows) |->
                   [k \in 1..Len(t.cols) |-> t.rows[i][t.cols[k]]]]]

\* load_mtg_data.py lines 16-48: the four tables are written in the order of
\* OutputFiles; the write after the can_write-th raises and ends the call.
load_normalized_data(card_df, editions, subtypes, links, can_write) ==
    LET tables == <<editions, subtypes, links, card_df>>
    IN [files |-> [f \in {OutputFiles[i] : i \in 1..Len(OutputFiles)} |->
                      LET i == CHOOSE j \in 1..Len(OutputFiles) : OutputFiles[j] = f
                      IN IF i <= can_write THEN <<to_csv(tables[i])>> ELSE <<>>],
        raised |-> can_write < Len(OutputFiles)]

\* The unpacking of line 39 if its names were in the order of the returned
\* tuple (card, edition, subtype, link).
Unpack_ByReturnedNames(t) ==
    [clean_card_df |-> t[1], edition_lookup_df |-> t[2],
     subtype_lookup_df |-> t[3], card_subtype_link_df |-> t[4]]

\* main.py line 39: the returned tuple unpacked by position into main's
\* locals, whose names are not in the order of the tuple.
Unpack(t) ==
    [clean_card_df |-> t[1], subtype_lookup_df |-> t[2],
     card_subtype_link_df |-> t[3], edition_lookup_df |-> t[4]]

\* The messages of lines 29, 43, 54 and 56.
ExtractionError == "FATAL ERROR: Failed to load CSV file"
TransformationError == "FATAL ERROR during Transformation"
LoadError == "FATAL ERROR during Load"
PipelineComplete ==
    "Pipeline complete. All normalised data tables saved to data/clean/."

\* The most rows of the source file.
MaxFileRows == 2

\* The source file: absent, present but not readable as CSV, or a table.
SourceFiles ==
    {[state |-> "absent"], [state |-> "unreadable"]}
    \cup {[state |-> "present", table |-> [cols |-> RawColumns, rows |-> rows]] :
             rows \in SeqsUpTo(RawRows, MaxFileRows)}

InitMain ==
    /\ CleanerIdle
    /\ pc = "NotCalled"
    /\ fn_arg = <<>>
    /\ fn_result = <<>>
    /\ main_pc = "Phase1"
    /\ source_file \in SourceFiles
    /\ writable \in 0..Len(OutputFiles)
    /\ reads = 0
    /\ extract_raised = "not called"
    /\ raw_df = <<>>
    /\ unpacked = <<>>
    /\ files = [f \in {OutputFiles[i] : i \in 1..Len(OutputFiles)} |-> <<>>]
    /\ log = <<>>

\* Lines 26-32: FileNotFoundError is caught and logged, and main goes on
\* with raw_df unbound; any other exception leaves main.
MainExtract ==
    /\ main_pc = "Phase1"
    /\ LET r == extract_mtg(source_file)
       IN /\ reads' = reads + r.reads
          /\ extract_raised' = r.raised
          /\ raw_df' = r.value
          /\ log' = IF r.raised = "FileNotFoundError"
                    THEN Append(log, ExtractionError) ELSE log
          /\ main_pc' = IF r.raised = "Exception" THEN "Raised" ELSE "Phase2"
    /\ UNCHANGED <<source_file, writable, unpacked, files>>
    /\ UNCHANGED <<pc, fn_arg, fn_result>>
    /\ UNCHANGED cleaner_vars

\* Lines 38-43 with raw_df unbound: reading it raises UnboundLocalError,
\* which `except Exception` catches.
MainTransformUnbound ==
    /\ main_pc = "Phase2"
    /\ raw_df = <<>>
    /\ log' = Append(log, TransformationError)
    /\ main_pc' = "Phase3"
    /\ UNCHANGED <<source_file, writable, reads, extract_raised, raw_df,
                   unpacked, files>>
    /\ UNCHANGED <<pc, fn_arg, fn_result>>
    /\ UNCHANGED cleaner_vars

\* Line 40: run_cleaner(raw_df) is called.
MainCallCleaner ==
    /\ main_pc = "Phase2"
    /\ raw_df # <<>>
    /\ raw' = raw_df[1]
    /\ pc' = "Called"
    /\ main_pc' = "InCleaner"
    /\ UNCHANGED <<source_file, writable, reads, extract_raised, raw_df,
                   unpacked, files, log>>
    /\ UNCHANGED <<fn_arg, fn_result, df, idx, final_rows, skipped, clean_df,
                   card_df_temp, subtype_lookup_df, card_subtype_link_df,
                   final_card_df, edition_lookup_df, returned, aliased>>

\* Line 39: run_cleaner has returned and its tuple is unpacked.
MainCleanerReturned ==
    /\ main_pc = "InCleaner"
    /\ pc = "Done"
    /\ unpacked' = <<Unpack(returned)>>
    /\ main_pc' = "Phase3"
    /\ UNCHANGED <<source_file, writable, reads, extract_raised, raw_df,
                   files, log>>
    /\ UNCHANGED <<pc, fn_arg, fn_result>>
    /\ UNCHANGED cleaner_vars

\* What main does when run_cleaner raises, if the handler bound the four
\* locals to empty tables.
MainCleanerRaised_BindsEmptyTables ==
    /\ main_pc = "InCleaner"
    /\ pc = "KeyError"
    /\ unpacked' = <<Unpack(<<EmptyTable, EmptyTable, EmptyTable, EmptyTable>>)>>
    /\ log' = Append(log, TransformationError)
    /\ main_pc' = "Phase3"
    /\ UNCHANGED <<source_file, writable, reads, extract_raised, raw_df, files>>
    /\ UNCHANGED <<pc, fn_arg, fn_result>>
    /\ UNCHANGED cleaner_vars

\* Lines 42-43: run_cleaner has raised; the error is logged and the four
\* locals stay unbound.
MainCleanerRaised ==
    /\ main_pc = "InCleaner"
    /\ pc = "KeyError"
    /\ log' = Append(log, TransformationError)
    /\ main_pc' = "Phase3"
    /\ UNCHANGED <<source_file, writable, reads, extract_raised, raw_df,
                   unpacked, files>>
    /\ UNCHANGED <<pc, fn_arg, fn_result>>
    /\ UNCHANGED cleaner_vars

\* Lines 49-54 with the locals unbound: reading clean_card_df raises
\* UnboundLocalError before load_normalized_data is called.
MainLoadUnbound ==
    /\ main_pc = "Phase3"
    /\ unpacked = <<>>
    /\ log' = Append(log, LoadError)
    /\ main_pc' = "Finishing"
    /\ UNCHANGED <<source_file, writable, reads, extract_raised, raw_df,
                   unpacked, files>>
    /\ UNCHANGED <<pc, fn_arg, fn_result>>
    /\ UNCHANGED cleaner_vars

\* Lines 49-54: load_normalized_data(clean_card_df, subtype_lookup_df,
\* card_subtype_link_df, edition_lookup_df), its exception caught and logged.
MainLoad ==
    /\ main_pc = "Phase3"
    /\ unpacked # <<>>
    /\ LET r == load_normalized_data(unpacked[1].clean_card_df,
                                     unpacked[1].subtype_lookup_df,
                                     unpacked[1].card_subtype_link_df,
                                     unpacked[1].edition_lookup_df,
                                     writable)
       IN /\ files' = r.files
          /\ log' = IF r.raised THEN Append(log, LoadError) ELSE log
    /\ main_pc' = "Finishing"
    /\ UNCHANGED <<source_file, writable, reads, extract_raised, raw_df,
                   unpacked>>
    /\ UNCHANGED <<pc, fn_arg, fn_result>>
    /\ UNCHANGED cleaner_vars

\* Line 56
MainLogComplete ==
    /\ main_pc = "Finishing"
    /\ log' = Append(log, PipelineComplete)
    /\ main_pc' = "Returned"
    /\ UNCHANGED <<source_file, writable, reads, extract_raised, raw_df,
                   unpacked, files>>
    /\ UNCHANGED <<pc, fn_arg, fn_result>>
    /\ UNCHANGED cleaner_vars

NextMain ==
    \/ MainExtract
    \/ MainTransformUnbound
    \/ MainCallCleaner
    \/ Next
    \/ MainCleanerReturned
    \/ MainCleanerRaised
    \/ MainLoadUnbound
    \/ MainLoad
    \/ MainLogComplete

SpecMain == InitMain /\ [][NextMain]_vars

(***************************************************************************)
(* Properties of a completed run, stated on the caller's raw table and the *)
(* four tables returned                                                    *)
(***************************************************************************)

Completed == pc = "Done"

card_details == returned[1].rows
edition_lookup == returned[2].rows
subtype_lookup == returned[3].rows
card_subtype_link == returned[4].rows

NumRawRows == Len(raw.rows)

\* The Type text of raw row i (missing read as empty), and its shape.
RawType(i) == FillNa(raw.rows[i]["Type"])

MultiFaced(i) == Contains(RawType(i), FaceSep)

WellFormed(i) ==
    /\ MultiFaced(i)
    /\ Len(Split(raw.rows[i]["Name"], FaceSep)) = 2
    /\ Len(Split(RawType(i), FaceSep)) = 2

Malformed(i) == MultiFaced(i) /\ ~WellFormed(i)

\* The number of faces raw row i is to yield, and the number of faces the
\* rows before row i yield.
FaceCount(i) == IF ~MultiFaced(i) THEN 1 ELSE IF WellFormed(i) THEN 2 ELSE 0

RECURSIVE FacesBefore(_)
FacesBefore(i) == IF i <= 1 THEN 0 ELSE FacesBefore(i - 1) + FaceCount(i - 1)

TotalFaces == FacesBefore(NumRawRows + 1)

\* The distinct non-empty trimmed subtypes of a comma-joined list.
SubtypesOf(list) == {Strip(x) : x \in Range(Split(list, <<",">>))} \ {<<>>}

\* The subtypes the faces of raw row i carry.
SubtypesOfRawRow(i) ==
    UNION {SubtypesOf(clean_types(Strip(part))["Subtypes_List"]) :
              part \in Range(Split(Strip(RawType(i)), FaceSep))}

\* The Subtype_ID / Edition_ID rows of a name in the lookups.
SubtypeIdsOf(name) ==
    {j \in 1..Len(subtype_lookup) : subtype_lookup[j]["Subtype_Name"] = name}

EditionIdsOf(name) ==
    {j \in 1..Len(edition_lookup) : edition_lookup[j]["Edition_Name"] = name}

\* The first position of x in a sequence that contains it.
FirstPos(x, t) == CHOOSE j \in 1..Len(t) : t[j] = x /\ \A k \in 1..(j - 1) : t[k] # x

\* C1: in a completed run the Card_ID values of card_details are exactly
\* 1..N, N the number of emitted faces, and the k-th emitted face (in
\* row-then-face order) is the row with Card_ID k, after both normalisers
\* have run and whatever rows were skipped in between.
C1_CardIdDense ==
    Completed =>
        /\ Len(card_details) = Len(final_rows)
        /\ Len(card_details) = TotalFaces
        /\ \A k \in 1..Len(card_details) :
              /\ card_details[k]["Card_ID"] = k
              /\ WithoutKeys(card_details[k], {"Card_ID", "Edition_ID"})
                   = WithoutKeys(final_rows[k], {"Edition", "Subtypes_List"})

\* A completed run in which a malformed row was skipped between two rows
\* that emitted faces.
C1_Witness ==
    /\ Completed
    /\ \E i \in 2..(NumRawRows - 1) :
          Malformed(i) /\ FaceCount(i - 1) > 0 /\ FaceCount(i + 1) > 0

\* C2: a malformed multi-faced row is skipped and run_cleaner does not
\* raise, whatever the other rows are, also when every row is malformed.
C2_SkipNeverRaises ==
    (\E i \in 1..NumRawRows : Malformed(i)) => pc # "KeyError"

\* C3: in a completed run a skipped malformed row contributes to no output
\* table: the fact rows are those of the other rows only, and every edition
\* and subtype of the lookups is carried by a row that was not skipped.
C3_SkippedRowInNoTable ==
    Completed =>
        /\ skipped = SelectSeq([i \in 1..NumRawRows |-> i], Malformed)
        /\ Len(card_details) = TotalFaces
        /\ \A k \in 1..Len(card_details) :
              \E i \in 1..NumRawRows :
                 /\ ~Malformed(i)
                 /\ card_details[k]["Name"]
                      \in {raw.rows[i]["Name"]}
                          \cup {Strip(x) : x \in Range(Split(raw.rows[i]["Name"], FaceSep))}
        /\ \A e \in Range(edition_lookup) :
              \E i \in 1..NumRawRows :
                 /\ ~Malformed(i)
                 /\ e["Edition_Name"] = CleanEditionText(raw.rows[i]["Edition"])
        /\ \A t \in Range(subtype_lookup) :
              \E i \in 1..NumRawRows :
                 ~Malformed(i) /\ t["Subtype_Name"] \in SubtypesOfRawRow(i)
        /\ \A l \in Range(card_subtype_link) :
              /\ l["Card_ID"] \in 1..TotalFaces
              /\ \E i \in 1..NumRawRows :
                    /\ ~Malformed(i)
                    /\ l["Card_ID"] \in (FacesBefore(i) + 1)..(FacesBefore(i) + FaceCount(i))
                    /\ \E t \in Range(subtype_lookup) :
                          /\ t["Subtype_ID"] = l["Subtype_ID"]
                          /\ t["Subtype_Name"] \in SubtypesOfRawRow(i)

\* A completed run that skipped a row whose edition and subtype no other
\* row carries.
C3_Witness ==
    /\ Completed
    /\ \E i \in 1..NumRawRows :
          /\ Malformed(i)
          /\ raw.rows[i]["Edition"] = Ed_Bad
          /\ SubtypesOfRawRow(i) # {}
          /\ EditionIdsOf(Ed_Bad) = {}
    /\ Len(subtype_lookup) > 0

\* C4: the Type field alone decides whether a row is multi-faced: a row
\* whose Type has no "//" yields exactly one fact row carrying its whole
\* Name (even if Name or Mana Cost holds "//"), a well-formed multi-faced
\* row yields two and a malformed one none, so that
\* N = (non-split rows) + 2 x (well-formed multi-faced rows).
C4_FacesPerRow ==
    Completed =>
        /\ Len(card_details)
             = Cardinality({i \in 1..NumRawRows : ~MultiFaced(i)})
               + 2 * Cardinality({i \in 1..NumRawRows : WellFormed(i)})
        /\ \A i \in 1..NumRawRows :
              /\ ~MultiFaced(i) =>
                    card_details[FacesBefore(i) + 1]["Name"] = raw.rows[i]["Name"]
              /\ WellFormed(i) =>
                    /\ card_details[FacesBefore(i) + 1]["Name"]
                         = Strip(Split(raw.rows[i]["Name"], FaceSep)[1])
                    /\ card_details[FacesBefore(i) + 2]["Name"]
                         = Strip(Split(raw.rows[i]["Name"], FaceSep)[2])

\* A completed run over a single-faced row whose Name and Mana Cost hold
\* "//", a well-formed multi-faced row and a malformed one.
C4_Witness ==
    /\ Completed
    /\ \E i \in 1..NumRawRows :
          /\ ~MultiFaced(i)
          /\ Contains(raw.rows[i]["Name"], FaceSep)
          /\ Contains(FillNa(raw.rows[i]["Mana Cost"]), FaceSep)
    /\ \E i \in 1..NumRawRows : WellFormed(i)
    /\ \E i \in 1..NumRawRows : Malformed(i)

\* Raw row i is well-formed and its Mana Cost too splits into two parts.
TwoPartCost(i) ==
    /\ WellFormed(i)
    /\ Len(Split(FillNa(raw.rows[i]["Mana Cost"]), FaceSep)) = 2

\* The trimmed f-th part of a field of raw row i.
NamePart(i, f) == Strip(Split(raw.rows[i]["Name"], FaceSep)[f])
TypePart(i, f) == Strip(Split(RawType(i), FaceSep)[f])
CostPart(i, f) == Strip(Split(FillNa(raw.rows[i]["Mana Cost"]), FaceSep)[f])

\* The subtypes card_subtype_link gives to the card with Card_ID c.
LinkedSubtypes(c) ==
    {t["Subtype_Name"] :
        t \in {u \in Range(subtype_lookup) :
                  \E l \in Range(card_subtype_link) :
                     l["Card_ID"] = c /\ l["Subtype_ID"] = u["Subtype_ID"]}}

\* The mana columns of a fact row.
ManaColumns == DOMAIN ManaInit

\* "A // B", "Instant // Sorcery", "sym_u // sym_2 sym_g": the split-card
\* scenario, and the two fact rows it is to give (keys aside).
IsSplitScenario(row) ==
    /\ row["Name"] = Name_AB
    /\ row["Type"] = Type_Split
    /\ row["Mana Cost"] = Mana_Split

SplitScenarioFaceA ==
    [Name |-> <<"A">>, Super_Type |-> <<>>,
     Primary_Type |-> <<"I", "n", "s", "t", "a", "n", "t">>,
     CMC |-> 1, Is_Hybrid |-> FALSE, Generic_Mana |-> 0, Is_X |-> FALSE,
     Is_W |-> FALSE, Is_U |-> TRUE, Is_B |-> FALSE, Is_R |-> FALSE,
     Is_G |-> FALSE, Is_C |-> FALSE]

SplitScenarioFaceB ==
    [Name |-> <<"B">>, Super_Type |-> <<>>,
     Primary_Type |-> <<"S", "o", "r", "c", "e", "r", "y">>,
     CMC |-> 3, Is_Hybrid |-> FALSE, Generic_Mana |-> 2, Is_X |-> FALSE,
     Is_W |-> FALSE, Is_U |-> FALSE, Is_B |-> FALSE, Is_R |-> FALSE,
     Is_G |-> TRUE, Is_C |-> FALSE]

\* C5: a well-formed multi-faced row whose Name, Type and Mana Cost are each
\* "a // b" gives two consecutive fact rows in face order; face f carries the
\* trimmed f-th name part, the clean_types result of the trimmed f-th type
\* part, the parse_mana_cost result of the trimmed f-th cost part and the
\* edition of the row, and nothing of the other face.
C5_SplitRowExpansion ==
    Completed =>
        \A i \in 1..NumRawRows :
           TwoPartCost(i) =>
              /\ \A f \in 1..2 :
                    LET card == card_details[FacesBefore(i) + f]
                        types == clean_types(TypePart(i, f))
                    IN /\ card["Card_ID"] = FacesBefore(i) + f
                       /\ card["Name"] = NamePart(i, f)
                       /\ card["Super_Type"] = types["Super_Type"]
                       /\ card["Primary_Type"] = types["Primary_Type"]
                       /\ LinkedSubtypes(card["Card_ID"])
                            = SubtypesOf(types["Subtypes_List"])
                       /\ OnlyKeys(card, ManaColumns)
                            = parse_mana_cost(CostPart(i, f))
                       /\ EditionIdsOf(CleanEditionText(raw.rows[i]["Edition"]))
                            = {card["Edition_ID"]}
              /\ IsSplitScenario(raw.rows[i]) =>
                    /\ WithoutKeys(card_details[FacesBefore(i) + 1],
                                   {"Card_ID", "Edition_ID"}) = SplitScenarioFaceA
                    /\ WithoutKeys(card_details[FacesBefore(i) + 2],
                                   {"Card_ID", "Edition_ID"}) = SplitScenarioFaceB

\* A completed run over the split-card scenario, after a row that emitted.
C5_Witness ==
    /\ Completed
    /\ \E i \in 2..NumRawRows :
          TwoPartCost(i) /\ IsSplitScenario(raw.rows[i]) /\ FacesBefore(i) > 0

\* C6: every (Card_ID, Subtype_ID) row of card_subtype_link names the Card_ID
\* of a card_details row and the Subtype_ID of a subtype_lookup row; neither
\* is missing.
C6_LinkIdsResolve ==
    Completed =>
        \A l \in Range(card_subtype_link) :
           /\ l["Card_ID"] # NullId
           /\ l["Subtype_ID"] # NullId
           /\ \E c \in Range(card_details) : c["Card_ID"] = l["Card_ID"]
           /\ \E t \in Range(subtype_lookup) : t["Subtype_ID"] = l["Subtype_ID"]

\* A completed run with links to several cards and several subtypes.
C6_Witness ==
    /\ Completed
    /\ Cardinality({l["Card_ID"] : l \in Range(card_subtype_link)}) > 1
    /\ Cardinality({l["Subtype_ID"] : l \in Range(card_subtype_link)}) > 1

\* C7: card_subtype_link holds exactly one row (c, id(s)) for every emitted
\* card c and every distinct non-empty trimmed subtype s of c's
\* Subtypes_List, and nothing else.
C7_LinkExactlyOncePerPair ==
    Completed =>
        /\ \A k \in 1..Len(final_rows) :
              \A name \in SubtypesOf(final_rows[k]["Subtypes_List"]) :
                 /\ Cardinality(SubtypeIdsOf(name)) = 1
                 /\ \A id \in SubtypeIdsOf(name) :
                       Cardinality({j \in 1..Len(card_subtype_link) :
                                       card_subtype_link[j]
                                         = [Card_ID |-> k, Subtype_ID |-> id]}) = 1
        /\ \A l \in Range(card_subtype_link) :
              /\ DOMAIN l = {"Card_ID", "Subtype_ID"}
              /\ l["Card_ID"] \in 1..Len(final_rows)
              /\ \E name \in SubtypesOf(final_rows[l["Card_ID"]]["Subtypes_List"]) :
                    l["Subtype_ID"] \in SubtypeIdsOf(name)

\* A completed run with a card that lists a subtype twice and a card
\* without subtypes.
C7_Witness ==
    /\ Completed
    /\ \E k \in 1..Len(final_rows) :
          LET names == Split(final_rows[k]["Subtypes_List"], <<",">>)
          IN \E a, b \in 1..Len(names) : a # b /\ names[a] = names[b]
    /\ \E k \in 1..Len(final_rows) : final_rows[k]["Subtypes_List"] = <<>>

\* Every subtype token of the emitted faces, faces in Card_ID order and
\* tokens in list order.
AllSubtypeTokens ==
    Flatten([k \in 1..Len(final_rows) |->
               LET names == Split(final_rows[k]["Subtypes_List"], <<",">>)
               IN [j \in 1..Len(names) |-> Strip(names[j])]])

\* C8: subtype_lookup has exactly one row per distinct trimmed non-empty
\* subtype of the emitted faces, its Subtype_ID values are 1..K in row order,
\* and the IDs follow the first occurrence of the names over the faces in
\* Card_ID order and, within a face, in list order.
C8_SubtypeLookup ==
    Completed =>
        /\ {t["Subtype_Name"] : t \in Range(subtype_lookup)}
             = Range(AllSubtypeTokens) \ {<<>>}
        /\ \A j \in 1..Len(subtype_lookup) :
              /\ subtype_lookup[j]["Subtype_ID"] = j
              /\ SubtypeIdsOf(subtype_lookup[j]["Subtype_Name"]) = {j}
        /\ \A a, b \in 1..Len(subtype_lookup) :
              a < b =>
                 FirstPos(subtype_lookup[a]["Subtype_Name"], AllSubtypeTokens)
                   < FirstPos(subtype_lookup[b]["Subtype_Name"], AllSubtypeTokens)

\* A completed run in which a subtype first seen on a later face follows one
\* of an earlier face, and a subtype occurs on two faces.
C8_Witness ==
    /\ Completed
    /\ Len(subtype_lookup) >= 3
    /\ \E a, b \in 1..Len(AllSubtypeTokens) :
          a + 1 < b /\ AllSubtypeTokens[a] = AllSubtypeTokens[b]
                    /\ AllSubtypeTokens[a] # AllSubtypeTokens[a + 1]

\* The cleaned edition text of the emitted faces, in Card_ID order.
FaceEditions == [k \in 1..Len(final_rows) |-> final_rows[k]["Edition"]]

\* C9: edition_lookup has exactly one row per distinct cleaned edition name
\* of the emitted faces, its Edition_ID values are 1..K in row order, and the
\* IDs follow the first occurrence of the names over the faces in Card_ID
\* order.
C9_EditionLookup ==
    Completed =>
        /\ {e["Edition_Name"] : e \in Range(edition_lookup)} = Range(FaceEditions)
        /\ \A j \in 1..Len(edition_lookup) :
              /\ edition_lookup[j]["Edition_ID"] = j
              /\ EditionIdsOf(edition_lookup[j]["Edition_Name"]) = {j}
        /\ \A a, b \in 1..Len(edition_lookup) :
              a < b =>
                 FirstPos(edition_lookup[a]["Edition_Name"], FaceEditions)
                   < FirstPos(edition_lookup[b]["Edition_Name"], FaceEditions)
        /\ \A i \in 1..NumRawRows :
              FaceCount(i) > 0 =>
                 \A f \in 1..FaceCount(i) :
                    FaceEditions[FacesBefore(i) + f]
                      = CleanEditionText(raw.rows[i]["Edition"])

\* A completed run in which cards of different raw rows share an edition
\* and another edition follows.
C9_Witness ==
    /\ Completed
    /\ Len(edition_lookup) >= 2
    /\ \E i, j \in 1..NumRawRows :
          /\ i < j /\ FaceCount(i) > 0 /\ FaceCount(j) > 0
          /\ raw.rows[i]["Edition"] # raw.rows[j]["Edition"]
          /\ CleanEditionText(raw.rows[i]["Edition"])
               = CleanEditionText(raw.rows[j]["Edition"])

\* C10: every card_details row has an Edition_ID, that of the one
\* edition_lookup row named as the face's cleaned edition text, and the fact
\* rows are the emitted faces, one each, in order.
C10_EditionKeyResolves ==
    Completed =>
        /\ Len(card_details) = Len(final_rows)
        /\ \A k \in 1..Len(card_details) :
              /\ card_details[k]["Card_ID"] = k
              /\ card_details[k]["Name"] = final_rows[k]["Name"]
              /\ card_details[k]["Edition_ID"] # NullId
              /\ Cardinality(EditionIdsOf(final_rows[k]["Edition"])) = 1
              /\ \A j \in EditionIdsOf(final_rows[k]["Edition"]) :
                    card_details[k]["Edition_ID"] = edition_lookup[j]["Edition_ID"]

\* A completed run whose cards resolve to different editions, two of them to
\* the same one.
C10_Witness ==
    /\ Completed
    /\ Len(edition_lookup) >= 2
    /\ \E a, b \in 1..Len(card_details) :
          a # b /\ card_details[a]["Edition_ID"] = card_details[b]["Edition_ID"]

(***************************************************************************)
(* The mana-cost grammar of the specification                              *)
(***************************************************************************)

\* The fixed marker a token may carry in front of its payload.
Marker == <<"s", "y", "m", "_">>

\* The payload of a token: the token without the marker prefix, if it has one.
Payload(part) ==
    IF StartsWith(part, Marker) THEN DropPrefix(part, Len(Marker)) ELSE part

IsColourSymbol(p) == Upper(p) \in Range(COLOURS)

IsXSymbol(p) == Upper(p) = <<"X">>

\* A digit sequence, a colour letter or X.
IsSymbol(p) == IsDigit(p) \/ IsColourSymbol(p) \/ IsXSymbol(p)

\* Two symbols joined by one slash.
IsHybridSymbol(p) ==
    LET sides == Split(p, <<"/">>)
    IN Len(sides) = 2 /\ IsSymbol(sides[1]) /\ IsSymbol(sides[2])

\* A leading 2 before the slash: the two-generic hybrid.
IsTwoGeneric(p) == StartsWith(p, <<"2", "/">>)

\* A token the grammar does not know.
IsUnrecognized(part) ==
    ~IsSymbol(Payload(part)) /\ ~IsHybridSymbol(Payload(part))

\* What one token adds to CMC according to the specification: a token whose
\* payload holds a slash is a hybrid and adds 2 when the raw token begins
\* with the marker and "2/", 1 otherwise.
TokenCMC(part) ==
    LET p == Payload(part)
    IN IF Contains(p, <<"/">>)
       THEN (IF StartsWith(part, Marker \o <<"2", "/">>) THEN 2 ELSE 1)
       ELSE IF IsColourSymbol(p) THEN 1
       ELSE IF IsDigit(p) THEN ParseInt(p)
       ELSE 0

RECURSIVE ExpectedCMC(_)
ExpectedCMC(parts) ==
    IF parts = <<>> THEN 0
    ELSE TokenCMC(Head(parts)) + ExpectedCMC(Tail(parts))

\* The result with nothing counted and every flag false.
AllZero ==
    [CMC |-> 0, Is_Hybrid |-> FALSE, Generic_Mana |-> 0, Is_X |-> FALSE,
     Is_W |-> FALSE, Is_U |-> FALSE, Is_B |-> FALSE, Is_R |-> FALSE,
     Is_G |-> FALSE, Is_C |-> FALSE]

ManaParsed == pc = "ManaCostParsed"

\* C12: for every mana-cost string, CMC is 1 per colour token, N per
\* all-digit token of value N, 1 or 2 per hybrid token (2 for the
\* two-generic hybrid), 0 per X token and per unrecognized token; the empty
\* string gives CMC 0 with every flag false.
C12_CMCIsSumOfTokens ==
    ManaParsed =>
        /\ fn_result.CMC = ExpectedCMC(SplitWS(fn_arg))
        /\ (fn_arg = <<>> => fn_result = AllZero)

\* The sum of the values of the all-digit tokens.
RECURSIVE ExpectedGeneric(_)
ExpectedGeneric(parts) ==
    IF parts = <<>> THEN 0
    ELSE (IF IsDigit(Payload(Head(parts))) THEN ParseInt(Payload(Head(parts)))
          ELSE 0)
         + ExpectedGeneric(Tail(parts))

\* C13: Generic_Mana is the sum of the values of the all-digit tokens only;
\* hybrid, colour and X tokens add nothing to it.
C13_GenericIsSumOfDigitTokens ==
    ManaParsed => fn_result.Generic_Mana = ExpectedGeneric(SplitWS(fn_arg))

\* What the hybrid tokens add to CMC by the rule of the claim: 2 when the
\* payload has a leading 2 before the slash, 1 otherwise.
RECURSIVE HybridCMC(_)
HybridCMC(parts) ==
    IF parts = <<>> THEN 0
    ELSE (IF IsTwoGeneric(Payload(Head(parts))) THEN 2 ELSE 1)
         + HybridCMC(Tail(parts))

\* C14: a hybrid token adds 2 to CMC exactly when its payload, after the
\* optional marker is stripped, has a leading 2 before the slash, and 1
\* otherwise, whether or not the token carries the marker.
C14_HybridCostIgnoresMarker ==
    LET parts == SplitWS(fn_arg)
    IN (ManaParsed /\ \A i \in 1..Len(parts) : IsHybridSymbol(Payload(parts[i])))
       => fn_result.CMC = HybridCMC(parts)

\* Some token's payload is the symbol c, or a hybrid with a side equal to c,
\* compared without regard to case.
TokenNames(parts, c) ==
    \E i \in 1..Len(parts) :
        LET p == Upper(Payload(parts[i]))
        IN p = c \/ (Contains(p, <<"/">>) /\ c \in Range(Split(p, <<"/">>)))

\* C15: Is_c is true iff some token's payload is c or a hybrid with a side
\* c (in either case), Is_X iff some token's payload is X, Is_Hybrid iff some
\* token's payload contains a slash; the other flags stay false.
C15_FlagsIffTokens ==
    LET parts == SplitWS(fn_arg)
    IN ManaParsed =>
        /\ \A i \in 1..Len(COLOURS) :
              fn_result[FlagOf(COLOURS[i])] <=> TokenNames(parts, COLOURS[i])
        /\ fn_result.Is_X <=>
              \E i \in 1..Len(parts) : IsXSymbol(Payload(parts[i]))
        /\ fn_result.Is_Hybrid <=>
              \E i \in 1..Len(parts) : Contains(Payload(parts[i]), <<"/">>)

\* The tokens of a list the grammar knows, in their order.
RECURSIVE Recognized(_)
Recognized(parts) ==
    IF parts = <<>> THEN <<>>
    ELSE (IF IsUnrecognized(Head(parts)) THEN <<>> ELSE <<Head(parts)>>)
         \o Recognized(Tail(parts))

\* C16: a token whose payload is no digit sequence, colour letter, X or two
\* such symbols joined by a slash changes no output field: the result is the
\* result of the cost string without these tokens.
C16_UnrecognizedIgnored ==
    ManaParsed =>
        fn_result = parse_mana_cost(Join(Recognized(SplitWS(fn_arg)), <<" ">>))

(***************************************************************************)
(* The type-line grammar of the specification                              *)
(***************************************************************************)

TypesParsed == pc = "TypeParsed"

\* The positions of the hyphens, and of the hyphens and em-dashes, of a text.
HyphenPositions(s) == {j \in 1..Len(s) : s[j] = "-"}

DashPositions(s) == {j \in 1..Len(s) : s[j] \in {"-", EmDash}}

\* C17 as stated: a type string with no hyphen has an empty Subtypes_List.
C17_NoHyphenNoSubtypes ==
    (TypesParsed /\ HyphenPositions(fn_arg) = {})
        => fn_result.Subtypes_List = <<>>

\* C17, amended: a type string with no hyphen and no em-dash has an empty
\* Subtypes_List.
C17_NoDashNoSubtypes ==
    (TypesParsed /\ DashPositions(fn_arg) = {})
        => fn_result.Subtypes_List = <<>>

\* A type string of several words and no dash was parsed.
C17_Witness ==
    /\ TypesParsed
    /\ DashPositions(fn_arg) = {}
    /\ Len(SplitWS(fn_arg)) >= 2
    /\ fn_result.Super_Type # <<>>
    /\ fn_result.Primary_Type # <<>>
    /\ fn_result.Subtypes_List = <<>>

\* The seven super types, as the specification names them.
SuperTypeNames ==
    {<<"B", "a", "s", "i", "c">>,
     <<"L", "e", "g", "e", "n", "d", "a", "r", "y">>,
     <<"O", "n", "g", "o", "i", "n", "g">>,
     <<"S", "n", "o", "w">>,
     <<"W", "o", "r", "l", "d">>,
     <<"T", "r", "i", "b", "a", "l">>,
     <<"P", "l", "a", "n", "e">>}

\* A word equals one of the seven names without regard to case.
IsSuperType(word) == \E n \in SuperTypeNames : Upper(word) = Upper(n)

\* The position of the first hyphen or em-dash of a text, 0 if it has none.
FirstDash(s) ==
    IF DashPositions(s) = {} THEN 0
    ELSE CHOOSE j \in DashPositions(s) : \A k \in DashPositions(s) : j <= k

\* The text before the first dash (all of it if there is none), and after it.
MainSegment(s) ==
    IF FirstDash(s) = 0 THEN s ELSE SubSeq(s, 1, FirstDash(s) - 1)

SubtypesSegment(s) == SubSeq(s, FirstDash(s) + 1, Len(s))

\* The k-th smallest element of a set of positions.
KthOf(P, k) == CHOOSE i \in P : Cardinality({j \in P : j < i}) = k - 1

\* The words of a list at the positions P, in their order.
WordsAt(words, P) == [k \in 1..Cardinality(P) |-> words[KthOf(P, k)]]

SuperPositions(words) == {i \in 1..Len(words) : IsSuperType(words[i])}

\* C18: each whitespace token of the main segment goes to Super_Type iff it
\* is one of the seven super types without regard to case, to Primary_Type
\* otherwise; each output is the space-join of its tokens in original order
\* and casing, so no token is lost or duplicated.
C18_MainTokensPartitioned ==
    LET words == SplitWS(MainSegment(fn_arg))
        P == SuperPositions(words)
    IN TypesParsed =>
        /\ fn_result.Super_Type = Join(WordsAt(words, P), <<" ">>)
        /\ fn_result.Primary_Type =
               Join(WordsAt(words, (1..Len(words)) \ P), <<" ">>)
        /\ Len(SplitWS(fn_result.Super_Type))
             + Len(SplitWS(fn_result.Primary_Type)) = Len(words)

\* A main segment with a super type in lower case between a word that only
\* begins with a super type and a primary type.
C18_Witness ==
    /\ TypesParsed
    /\ SplitWS(MainSegment(fn_arg)) = <<Ty_Snowy, Ty_basic, Ty_Creature>>
    /\ fn_result.Super_Type = Ty_basic
    /\ fn_result.Primary_Type = Ty_Snowy \o <<" ">> \o Ty_Creature

\* C19: only the first hyphen or em-dash splits: what is before it is the
\* main segment, what is after it is the subtypes segment, kept whole,
\* tokenized on whitespace and joined with commas in original order without
\* deduplication.
C19_SplitAtFirstDashOnly ==
    (TypesParsed /\ FirstDash(fn_arg) # 0) =>
        /\ fn_result.Subtypes_List =
               Join(SplitWS(SubtypesSegment(fn_arg)), <<",">>)
        /\ Len(SplitWS(fn_result.Super_Type))
             + Len(SplitWS(fn_result.Primary_Type))
             = Len(SplitWS(MainSegment(fn_arg)))

\* A type string with a later dash and a repeated word after the first one.
C19_Witness ==
    /\ TypesParsed
    /\ Cardinality(DashPositions(fn_arg)) >= 2
    /\ fn_result.Primary_Type # <<>>
    /\ \E i, j \in 1..Len(SplitWS(SubtypesSegment(fn_arg))) :
           /\ i < j
           /\ SplitWS(SubtypesSegment(fn_arg))[i]
                = SplitWS(SubtypesSegment(fn_arg))[j]
    /\ \E j \in DashPositions(fn_result.Subtypes_List) : TRUE

(***************************************************************************)
(* A multi-faced row with one cost                                         *)
(***************************************************************************)

\* The Mana Cost text of raw row i as the loop reads it.
RawCost(i) == Strip(AsStr(FillNa(raw.rows[i]["Mana Cost"])))

\* Raw row i is a well-formed multi-faced row whose cost has no separator.
OneCostTwoFaces(i) == WellFormed(i) /\ ~Contains(RawCost(i), FaceSep)

\* C20: for a multi-faced row whose Mana Cost does not contain the face
\* separator, face 1 is parsed with the whole Mana Cost and face 2 with the
\* empty cost: face 2 has CMC 0, Generic_Mana 0 and every flag false.
C20_SecondFaceCostsNothing ==
    Completed =>
        \A i \in 1..NumRawRows :
           OneCostTwoFaces(i) =>
              /\ OnlyKeys(card_details[FacesBefore(i) + 1], ManaColumns)
                   = parse_mana_cost(RawCost(i))
              /\ OnlyKeys(card_details[FacesBefore(i) + 2], ManaColumns)
                   = AllZero

\* A completed run over such a row whose first face has a cost, after a row
\* that emitted.
C20_Witness ==
    /\ Completed
    /\ \E i \in 2..NumRawRows :
          /\ OneCostTwoFaces(i)
          /\ FacesBefore(i) > 0
          /\ card_details[FacesBefore(i) + 1]["CMC"] > 0
          /\ card_details[FacesBefore(i) + 1]["Is_Hybrid"]
          /\ card_details[FacesBefore(i) + 2]["CMC"] = 0

(***************************************************************************)
(* The tables run_cleaner returns, its stages and its input                *)
(***************************************************************************)

CardDetailsColumns ==
    <<"Card_ID", "Edition_ID", "Name", "Super_Type", "Primary_Type", "CMC",
      "Is_Hybrid", "Generic_Mana", "Is_X",
      "Is_W", "Is_U", "Is_B", "Is_R", "Is_G", "Is_C">>

\* The raw and intermediate columns the returned tables are not to have.
RawOnlyColumns == {"Edition", "Price", "Type", "Mana Cost", "Subtypes_List"}

\* A table has exactly the columns cols, in this order, in every row.
HasColumns(t, cols) ==
    /\ t.cols = cols
    /\ \A i \in 1..Len(t.rows) : DOMAIN t.rows[i] = Range(cols)

\* C21: the four returned tables have exactly the stated columns in the
\* stated order, and none of the raw Edition, Price, Type, Mana Cost and
\* Subtypes_List columns.
C21_ReturnedColumns ==
    Completed =>
        /\ HasColumns(returned[1], CardDetailsColumns)
        /\ HasColumns(returned[2], <<"Edition_Name", "Edition_ID">>)
        /\ HasColumns(returned[3], <<"Subtype_Name", "Subtype_ID">>)
        /\ HasColumns(returned[4], <<"Card_ID", "Subtype_ID">>)
        /\ \A k \in 1..4 : Range(returned[k].cols) \cap RawOnlyColumns = {}

\* A completed run in which each of the four tables has a row.
C21_Witness ==
    /\ Completed
    /\ \A k \in 1..4 : returned[k].rows # <<>>

\* The stage run_cleaner is in: 0 before line 285, then RawInput (1),
\* EditionTextCleaned (2, until the loop of line 308 has read every row),
\* FacesExpanded (3), CardIDAssigned (4), SubtypesNormalized (5),
\* EditionNormalized (6), Done (7); -1 once an error has left run_cleaner.
Stage ==
    IF pc = "Called" THEN 0
    ELSE IF pc = "RawInput" THEN 1
    ELSE IF pc \in {"EditionTextCleaned", "PriceDropped"} THEN 2
    ELSE IF pc = "Expanding" THEN (IF idx <= Len(df.rows) THEN 2 ELSE 3)
    ELSE IF pc = "CardIDAssigned" THEN 4
    ELSE IF pc = "SubtypesNormalized" THEN 5
    ELSE IF pc = "EditionNormalized" THEN 6
    ELSE IF pc = "Done" THEN 7
    ELSE 0 - 1

\* What each stage has and has not done yet.
StageInv ==
    /\ Stage >= 4 =>
          /\ idx > Len(df.rows)
          /\ Len(final_rows) = TotalFaces
          /\ Len(clean_df.rows) = Len(final_rows)
    /\ (Stage >= 0 /\ Stage < 4) => clean_df = EmptyTable
    /\ (Stage >= 0 /\ Stage < 5) =>
          /\ card_df_temp = EmptyTable
          /\ subtype_lookup_df = EmptyTable
          /\ card_subtype_link_df = EmptyTable
    /\ Stage >= 5 => subtype_lookup_df # EmptyTable
    /\ (Stage >= 0 /\ Stage < 6) =>
          /\ edition_lookup_df = EmptyTable
          /\ final_card_df = EmptyTable
    /\ Stage >= 6 => edition_lookup_df # EmptyTable
    /\ Stage < 7 => returned = <<>>
    /\ Stage = 0 - 1 =>
          /\ card_df_temp = EmptyTable
          /\ subtype_lookup_df = EmptyTable
          /\ edition_lookup_df = EmptyTable
          /\ final_card_df = EmptyTable

\* A step stays in its stage, moves to the next one, or fails; a failed or
\* finished run takes no further step.
StageStep ==
    /\ Stage \notin {0 - 1, 7}
    /\ Stage' \in {Stage, Stage + 1, 0 - 1}

\* C24: run_cleaner moves through RawInput, EditionTextCleaned,
\* FacesExpanded, CardIDAssigned, SubtypesNormalized, EditionNormalized and
\* Done in this order, skipping and repeating none; Card_ID is assigned only
\* after all faces are accumulated, subtypes are normalized before editions,
\* and after a failure no later stage runs and no table is returned.
C24_StagesInOrder == []StageInv /\ [][StageStep]_vars

\* A completed run that skipped a row and emitted faces of two rows.
C24_Witness ==
    /\ Completed
    /\ skipped # <<>>
    /\ Len(final_rows) >= 2
    /\ StageInv

\* The text without the prefix, if it starts with it.
RemovePrefix(s, prefix) ==
    IF StartsWith(s, prefix) THEN DropPrefix(s, Len(prefix)) ELSE s

\* C25: the cleaned edition is the raw edition with the prefix removed from
\* its start when present, then trimmed; occurrences of the string elsewhere
\* in the text are kept.
C25_PrefixOnly ==
    pc = "EditionTextCleaned" =>
        \A i \in 1..Len(df.rows) :
            df.rows[i]["Edition"]
              = Strip(RemovePrefix(AsStr(raw.rows[i]["Edition"]), PREFIX_TO_REMOVE))

\* The parts of the Mana Cost of raw row i.
CostParts(i) == Split(RawCost(i), FaceSep)

\* C28: a multi-faced row with exactly two name parts and two type parts is
\* never skipped and never fails, whatever its Mana Cost; when the cost has
\* more than two parts, face 1 has the first, face 2 the second, and the
\* others are discarded.
C28_CostShapeNeverSkips ==
    /\ \A i \in 1..NumRawRows :
          (WellFormed(i) /\ pc \notin {"Called", "RawInput"}) =>
             /\ \A k \in 1..Len(skipped) : skipped[k] # i
             /\ pc # "KeyError"
             /\ (pc = "Expanding" /\ idx > i) =>
                   Len(final_rows) >= FacesBefore(i) + 2
    /\ Completed =>
          \A i \in 1..NumRawRows :
             (WellFormed(i) /\ Len(CostParts(i)) > 2) =>
                \A f \in 1..2 :
                   OnlyKeys(card_details[FacesBefore(i) + f], ManaColumns)
                     = parse_mana_cost(Strip(CostParts(i)[f]))

\* A completed run over a well-formed row whose cost has three parts, after
\* a row that emitted.
C28_Witness ==
    /\ Completed
    /\ \E i \in 2..NumRawRows :
          /\ WellFormed(i)
          /\ Len(CostParts(i)) = 3
          /\ FacesBefore(i) > 0
          /\ card_details[FacesBefore(i) + 2]["Is_U"]
          /\ ~card_details[FacesBefore(i) + 2]["Is_B"]

\* C30: no step of run_cleaner changes the table passed to it: its rows, its
\* Edition text, its Price column and its Type and Mana Cost values stay.
C30_InputUnchanged == [][raw' = raw]_vars

\* A completed run over a table with a prefixed edition: the working copy
\* was changed, the input still has its columns and its prefix.
C30_Witness ==
    /\ Completed
    /\ raw.cols = RawColumns
    /\ df # raw
    /\ \E i \in 1..NumRawRows :
          /\ StartsWith(raw.rows[i]["Edition"], PREFIX_TO_REMOVE)
          /\ raw.rows[i]["Price"] = Price_007
          /\ ~StartsWith(df.rows[i]["Edition"], PREFIX_TO_REMOVE)

(***************************************************************************)
(* parse_mana_cost as a fold                                               *)
(***************************************************************************)

\* The field-wise sum of CMC and Generic_Mana and OR of the flags.
Combine(a, b) ==
    [k \in DOMAIN a |->
        IF k \in {"CMC", "Generic_Mana"} THEN a[k] + b[k] ELSE a[k] \/ b[k]]

\* The orderings of n positions.
Orderings(n) ==
    {f \in [1..n -> 1..n] : \A i, j \in 1..n : f[i] = f[j] => i = j}

\* The cost string of a list of tokens.
CostOf(parts) == Join(parts, <<" ">>)

\* C29: any permutation of the tokens gives the same result; the result of
\* a concatenation of two token strings is the sum of CMC and Generic_Mana
\* and the OR of every flag of the two results; a flag set by a token is not
\* cleared by a later one.
C29_CommutativeFold ==
    LET parts == SplitWS(fn_arg)
        n == Len(parts)
    IN ManaParsed =>
        /\ \A f \in Orderings(n) :
              parse_mana_cost(CostOf([i \in 1..n |-> parts[f[i]]])) = fn_result
        /\ \A k \in 0..n :
              LET first == parse_mana_cost(CostOf(SubSeq(parts, 1, k)))
                  rest == parse_mana_cost(CostOf(SubSeq(parts, k + 1, n)))
              IN /\ fn_result = Combine(first, rest)
                 /\ \A flag \in ManaColumns \ {"CMC", "Generic_Mana"} :
                       first[flag] => fn_result[flag]

\* Generic mana before the two-generic hybrid was parsed: both tokens count.
C29_Witness ==
    /\ ManaParsed
    /\ SplitWS(fn_arg) = <<Tok_3, Tok_2u>>
    /\ fn_result.CMC = 5
    /\ fn_result.Generic_Mana = 3
    /\ fn_result.Is_Hybrid
    /\ fn_result.Is_U

(***************************************************************************)
(* The pipeline driver                                                     *)
(***************************************************************************)

ExtractCalled == extract_raised # "not called"

FileNames == {OutputFiles[i] : i \in 1..Len(OutputFiles)}

NothingWritten == \A f \in FileNames : files[f] = <<>>

AllWritten == \A f \in FileNames : files[f] # <<>>

Logged(message) == \E i \in 1..Len(log) : log[i] = message

\* C22: an absent source file makes extract_mtg raise FileNotFoundError, any
\* other read failure a different exception; in neither case is a table
\* returned or the read made again.
C22_TypedExtractionFailure ==
    ExtractCalled =>
        /\ source_file.state = "absent" =>
              extract_raised = "FileNotFoundError" /\ raw_df = <<>>
        /\ source_file.state = "unreadable" =>
              /\ extract_raised \notin {"none", "FileNotFoundError"}
              /\ raw_df = <<>>
              /\ main_pc = "Raised"
        /\ source_file.state = "present" => extract_raised = "none"
        /\ reads = 1

\* extract_mtg was called on an absent file and main went on.
C22_Witness ==
    /\ source_file.state = "absent"
    /\ extract_raised = "FileNotFoundError"
    /\ Logged(ExtractionError)
    /\ main_pc = "Phase2"

\* C23: when extraction fails because the source file is absent, or when the
\* transformation fails, main performs no load: none of the four output
\* files is written in that run.
C23_NoLoadAfterFailure ==
    (extract_raised = "FileNotFoundError" \/ pc = "KeyError"
       \/ Logged(TransformationError))
        => NothingWritten

\* main has returned after run_cleaner raised, with data/clean writable.
C23_Witness ==
    /\ main_pc = "Returned"
    /\ pc = "KeyError"
    /\ writable = Len(OutputFiles)
    /\ Logged(TransformationError)
    /\ NothingWritten

\* C26: in a run of main in which all three phases succeed, each output
\* file receives the table of its name, with its columns.
C26_FilesGetTheirTables ==
    (main_pc = "Returned" /\ extract_raised = "none" /\ pc = "Done"
       /\ ~Logged(LoadError)) =>
        /\ files["card_details.csv"] = <<to_csv(final_card_df)>>
        /\ files["card_details.csv"][1].header = CardDetailsColumns
        /\ files["edition_lookup.csv"] = <<to_csv(edition_lookup_df)>>
        /\ files["edition_lookup.csv"][1].header = <<"Edition_Name", "Edition_ID">>
        /\ files["subtype_lookup.csv"] = <<to_csv(subtype_lookup_df)>>
        /\ files["subtype_lookup.csv"][1].header = <<"Subtype_Name", "Subtype_ID">>
        /\ files["card_subtype_link.csv"] = <<to_csv(card_subtype_link_df)>>
        /\ files["card_subtype_link.csv"][1].header = <<"Card_ID", "Subtype_ID">>

\* main has returned from a run in which every phase succeeded and every
\* table has a row.
C26_Witness ==
    /\ main_pc = "Returned"
    /\ extract_raised = "none"
    /\ pc = "Done"
    /\ ~Logged(LoadError)
    /\ AllWritten
    /\ \A f \in FileNames : files[f][1].lines # <<>>

\* C27: main logs the completion message only in runs in which the load
\* wrote all four output files.
C27_CompleteOnlyAfterLoad == Logged(PipelineComplete) => AllWritten

====
